---- MODULE Spec2Model ----
(***************************************************************************)
(* Order / match lifecycle engine of cropfresh-service-order.              *)
(*                                                                         *)
(* The store (Prisma) holds match rows and order rows.  Every service      *)
(* call is a sequence of steps: each repository call (an await) is one     *)
(* atomic step on the store, and the synchronous code between two awaits   *)
(* runs on the call's local copy of what it read.  Calls interleave at the *)
(* awaits.  The wall clock `now` (new Date(), Date.now()) advances on its  *)
(* own.  A call that computes nothing before its first await is made in    *)
(* the step of that await; synchronous code that reads only the call's     *)
(* locals runs in the step of the await before it.  Two readings of the    *)
(* clock that the code compares with each other are kept apart: the clock  *)
(* may advance between them even where no other call can run.              *)
(*                                                                         *)
(* Data carried but never read by a decision (labels, actor, note, event   *)
(* timestamps, buyer/listing summaries, match.updatedAt) is left out of    *)
(* the rows.                                                               *)
(***************************************************************************)
EXTENDS Integers, Sequences, FiniteSets, TLC

\* ------------------------------------------------------------------ bounds
\* number of service calls made in one run
MaxCalls == 3
\* number of calls the server has in flight at once
MaxProcs == 2
\* the clock runs over 0..MaxClock; deadlines are drawn from 1..MaxClock
MaxClock == 2
\* the sweep's loop is followed in every order of its rows while at most
\* MaxShuffle rows are left to do, and in one order before that
MaxShuffle == 2
\* ticks of the clock to the day, where the code counts in days
TicksPerDay == 2

\* ------------------------------------------------------ optional values
\* null / undefined is the empty tuple, a present value v is <<v>>
None == << >>
Some(v) == << v >>
IsSome(o) == o # None
Val(o) == o[1]

Min(a, b) == IF a <= b THEN a ELSE b

\* ---------------------------------------------------------- identifiers
Procs == 1..MaxProcs
MatchIds == {"m1", "m2"}
\* an id no match has
NoMatchId == "m0"
OrderIds == {"o1"}
\* an order number no order has
NoOrderId == "o0"

\* ------------------------------------------------------------ match types
PENDING_ACCEPTANCE == "PENDING_ACCEPTANCE"
ACCEPTED == "ACCEPTED"
REJECTED == "REJECTED"
EXPIRED == "EXPIRED"
MatchStatus == {PENDING_ACCEPTANCE, ACCEPTED, REJECTED, EXPIRED}
TerminalMatchStatus == {ACCEPTED, REJECTED, EXPIRED}
\* the reasons a reject call is tried with: a reason code, and the empty text
RejectionReasons == {"SOLD_ELSEWHERE", ""}

\* take: 100 of findExpiredPendingMatches
BatchLimit == 100
\* limit = 10 of findPendingByFarmerId
PendingDefaultLimit == 10

\* ------------------------------------------------------------ order types
OrderTrackingStatus ==
    {"LISTED", "MATCHED", "PICKUP_SCHEDULED", "AT_DROP_POINT", "IN_TRANSIT", "DELIVERED", "PAID"}

STATUS_STEP_MAP ==
    [s \in OrderTrackingStatus |->
        CASE s = "LISTED" -> 1
          [] s = "MATCHED" -> 2
          [] s = "PICKUP_SCHEDULED" -> 3
          [] s = "AT_DROP_POINT" -> 4
          [] s = "IN_TRANSIT" -> 5
          [] s = "DELIVERED" -> 6
          [] s = "PAID" -> 7]

VALID_TRANSITIONS ==
    [s \in OrderTrackingStatus |->
        CASE s = "LISTED" -> {"MATCHED"}
          [] s = "MATCHED" -> {"PICKUP_SCHEDULED"}
          [] s = "PICKUP_SCHEDULED" -> {"AT_DROP_POINT"}
          [] s = "AT_DROP_POINT" -> {"IN_TRANSIT"}
          [] s = "IN_TRANSIT" -> {"DELIVERED"}
          [] s = "DELIVERED" -> {"PAID"}
          [] s = "PAID" -> {}]

\* a table check that lets any forward move through
isValidTransition_AnyForward(currentStatus, newStatus) ==
    \E n \in 1..7 : STATUS_STEP_MAP[newStatus] = STATUS_STEP_MAP[currentStatus] + n

isValidTransition(currentStatus, newStatus) ==
    newStatus \in VALID_TRANSITIONS[currentStatus]

getStatusStep(status) ==
    IF status \in DOMAIN STATUS_STEP_MAP THEN STATUS_STEP_MAP[status] ELSE 1

\* a step table that lost its PAID row
getStepNumber_NoPaid(status) ==
    CASE status = "LISTED" -> 1
      [] status = "MATCHED" -> 2
      [] status = "PICKUP_SCHEDULED" -> 3
      [] status = "AT_DROP_POINT" -> 4
      [] status = "IN_TRANSIT" -> 5
      [] status = "DELIVERED" -> 6
      [] OTHER -> 1

\* OrderStatusRepository.getStepNumber: its own table, default 1
getStepNumber(status) ==
    CASE status = "LISTED" -> 1
      [] status = "MATCHED" -> 2
      [] status = "PICKUP_SCHEDULED" -> 3
      [] status = "AT_DROP_POINT" -> 4
      [] status = "IN_TRANSIT" -> 5
      [] status = "DELIVERED" -> 6
      [] status = "PAID" -> 7
      [] OTHER -> 1

\* error codes
OK == "OK"
ORDER_NOT_FOUND == "ORDER_NOT_FOUND"
INVALID_TRANSITION == "INVALID_TRANSITION"
ALREADY_IN_STATUS == "ALREADY_IN_STATUS"
\* `Order not found` thrown as a plain Error by the repository
REPO_ORDER_NOT_FOUND == "REPO_ORDER_NOT_FOUND"
MATCH_NOT_FOUND == "Match not found"
NO_LONGER_PENDING == "Match is no longer pending acceptance"
MATCH_EXPIRED == "Match has expired"
NOT_REJECTABLE == "Match cannot be rejected"
UNAUTHORIZED == "UNAUTHORIZED"
INVALID_FARMER_ID == "INVALID_FARMER_ID"
TRANSACTION_NOT_FOUND == "TRANSACTION_NOT_FOUND"

\* now: the wall clock; matches, orders: the store's rows;
\* calls: per request slot, the call it serves (or served last); ncalls: calls made so far
VARIABLES now, matches, orders, calls, ncalls
vars == << now, matches, orders, calls, ncalls >>


\* ------------------------------------------------------ the idle call slot
IdleCall ==
    [ op |-> "none", pc |-> "idle", id |-> "", isPartial |-> FALSE, reason |-> "",
      newStatus |-> "", farmerId |-> 0,
      dto |-> None, t |-> 0, st0 |-> "", snap |-> None, upd |-> None,
      batch |-> {}, todo |-> {}, count |-> 0, result |-> "", ret |-> None, wrote |-> 0,
      queries |-> {}, part |-> None ]

InFlight(p) == calls[p].pc \notin {"idle", "done"}
Done(p) == calls[p].pc = "done"
NoneInFlight == \A p \in Procs : ~InFlight(p)
\* a new call takes the lowest slot that serves no call
CanStart(p) ==
    /\ ncalls < MaxCalls
    /\ ~InFlight(p)
    /\ \A q \in Procs : q < p => InFlight(q)

\* what a call keeps once it has returned or thrown
Finish(c, result, ret) ==
    [c EXCEPT !.pc = "done", !.result = result, !.ret = ret,
              !.snap = None, !.upd = None, !.todo = {}, !.dto = None, !.t = 0,
              !.reason = "", !.queries = {}, !.part = None]

\* =====================================================================
\* Match repository (src/src/repositories/match.repository.ts)
\* =====================================================================

\* the row repo.create writes: PENDING_ACCEPTANCE, deadline ahead of the clock
NewMatch(expiresAt) ==
    [ farmerId |-> 1, quantityMatched |-> 50, pricePerKg |-> 35, totalAmount |-> 50 * 35,
      status |-> PENDING_ACCEPTANCE, expiresAt |-> expiresAt, acceptedAt |-> None,
      rejectedAt |-> None, orderId |-> None, rejectionReason |-> None ]

\* findById: the row, or null
MatchFindById(id) == IF id \in DOMAIN matches THEN Some(matches[id]) ELSE None

\* updateData that never carries the order id
MatchUpdateData_NoOrderId(status, details, t) ==
    CASE status = ACCEPTED -> [status |-> status, acceptedAt |-> Some(t)]
      [] status = REJECTED ->
           IF IsSome(details.rejectionReason)
              THEN [status |-> status, rejectedAt |-> Some(t),
                    rejectionReason |-> details.rejectionReason]
              ELSE [status |-> status, rejectedAt |-> Some(t)]
      [] OTHER -> [status |-> status]

\* updateData that leaves rejectedAt out
MatchUpdateData_NoRejectedAt(status, details, t) ==
    CASE status = ACCEPTED ->
           IF IsSome(details.orderId)
              THEN [status |-> status, acceptedAt |-> Some(t), orderId |-> details.orderId]
              ELSE [status |-> status, acceptedAt |-> Some(t)]
      [] status = REJECTED ->
           IF IsSome(details.rejectionReason)
              THEN [status |-> status, rejectionReason |-> details.rejectionReason]
              ELSE [status |-> status]
      [] OTHER -> [status |-> status]

\* updateStatus, the synchronous part: the updateData built from the clock
MatchUpdateData(status, details, t) ==
    CASE status = ACCEPTED ->
           IF IsSome(details.orderId)
              THEN [status |-> status, acceptedAt |-> Some(t), orderId |-> details.orderId]
              ELSE [status |-> status, acceptedAt |-> Some(t)]
      [] status = REJECTED ->
           IF IsSome(details.rejectionReason)
              THEN [status |-> status, rejectedAt |-> Some(t),
                    rejectionReason |-> details.rejectionReason]
              ELSE [status |-> status, rejectedAt |-> Some(t)]
      [] OTHER -> [status |-> status]

NoDetails == [orderId |-> None, rejectionReason |-> None]

\* prisma.match.update({where: {id}, data}): the named columns are overwritten,
\* whatever the row's current status is
MatchApplyUpdate(row, data) ==
    [f \in DOMAIN row |-> IF f \in DOMAIN data THEN data[f] ELSE row[f]]

\* findPendingByFarmerId's where: farmerId, status PENDING_ACCEPTANCE, expiresAt > t
PendingOf(farmerId, t) ==
    {m \in DOMAIN matches :
        /\ matches[m].farmerId = farmerId
        /\ matches[m].status = PENDING_ACCEPTANCE
        /\ matches[m].expiresAt > t}

\* orderBy expiresAt asc: every order of the rows of S with deadlines
\* ascending (rows with equal deadlines come in any order)
RECURSIVE SortedByExpiry(_)
SortedByExpiry(S) ==
    IF S = {} THEN { << >> }
    ELSE UNION { { << m >> \o rest : rest \in SortedByExpiry(S \ {m}) } :
                 m \in {x \in S : \A y \in S : matches[x].expiresAt <= matches[y].expiresAt} }

\* skip: offset, take: limit
Page(rows, limit, offset) == SubSeq(rows, offset + 1, Min(Len(rows), offset + limit))

\* findPendingByFarmerId(farmerId, limit, offset) at clock t: the ids of the rows returned
findPendingByFarmerId(farmerId, limit, offset, t) ==
    { Page(rows, limit, offset) : rows \in SortedByExpiry(PendingOf(farmerId, t)) }

\* the query with lt in place of lte
ExpiredPending_Strict(t) ==
    {m \in DOMAIN matches : matches[m].status = PENDING_ACCEPTANCE /\ matches[m].expiresAt < t}

\* findExpiredPendingMatches: where status = PENDING_ACCEPTANCE and expiresAt <= t
ExpiredPending(t) ==
    {m \in DOMAIN matches : matches[m].status = PENDING_ACCEPTANCE /\ matches[m].expiresAt <= t}

\* the query without its take
TakeSets_NoLimit(S, n) == {S}

\* take: n, no orderBy: any n of the rows
RECURSIVE TakeSets(_, _)
TakeSets(S, n) ==
    IF Cardinality(S) <= n THEN {S} ELSE UNION {TakeSets(S \ {m}, n) : m \in S}

\* for (const match of expiredMatches): the rows the loop may take next.  The
\* query has no orderBy, so the order of the rows is not the code's choice.
NextInBatch(todo) ==
    IF Cardinality(todo) <= MaxShuffle THEN todo ELSE {CHOOSE m \in todo : TRUE}

\* =====================================================================
\* Match service (MatchService in src/src/services/rating.service.ts)
\* =====================================================================

\* acceptMatch without its deadline check
AcceptDecision_NoExpiry(snap, t) ==
    IF snap = None THEN MATCH_NOT_FOUND
    ELSE IF Val(snap).status # PENDING_ACCEPTANCE THEN NO_LONGER_PENDING
    ELSE OK

\* acceptMatch with the deadline checked before the status
AcceptDecision_ExpiryFirst(snap, t) ==
    IF snap = None THEN MATCH_NOT_FOUND
    ELSE IF t > Val(snap).expiresAt THEN MATCH_EXPIRED
    ELSE IF Val(snap).status # PENDING_ACCEPTANCE THEN NO_LONGER_PENDING
    ELSE OK

\* acceptMatch, the checks after findById returned `snap`, at clock t
AcceptDecision(snap, t) ==
    IF snap = None THEN MATCH_NOT_FOUND
    ELSE IF Val(snap).status # PENDING_ACCEPTANCE THEN NO_LONGER_PENDING
    ELSE IF t > Val(snap).expiresAt THEN MATCH_EXPIRED
    ELSE OK

\* rejectMatch that lets only a pending match through
RejectDecision_PendingOnly(snap) ==
    IF snap = None THEN MATCH_NOT_FOUND
    ELSE IF Val(snap).status # PENDING_ACCEPTANCE THEN NOT_REJECTABLE
    ELSE OK

\* rejectMatch, the checks after findById returned `snap`
RejectDecision(snap) ==
    IF snap = None THEN MATCH_NOT_FOUND
    ELSE IF Val(snap).status # PENDING_ACCEPTANCE /\ Val(snap).status # EXPIRED THEN NOT_REJECTABLE
    ELSE OK

\* const mockOrderId = `ord-${Date.now()}`
MockOrderId(t) == t

\* getPendingMatches(farmerId): return this.repo.findPendingByFarmerId(farmerId)
GetPendingMatches(p, farmerId) ==
    /\ CanStart(p)
    /\ \E rows \in findPendingByFarmerId(farmerId, PendingDefaultLimit, 0, now) :
          calls' = [calls EXCEPT ![p] =
             Finish([IdleCall EXCEPT !.op = "getPendingMatches", !.farmerId = farmerId],
                    OK, Some(rows))]
    /\ ncalls' = ncalls + 1
    /\ UNCHANGED << now, matches, orders >>

\* acceptMatch is called: await this.repo.findById(matchId)
AcceptFindById(p, id, isPartial) ==
    /\ CanStart(p)
    /\ calls' = [calls EXCEPT ![p] = [IdleCall EXCEPT !.op = "accept", !.pc = "acc_check",
                    !.id = id, !.isPartial = isPartial, !.snap = MatchFindById(id),
                    !.st0 = IF id \in DOMAIN matches THEN matches[id].status ELSE ""]]
    /\ ncalls' = ncalls + 1
    /\ UNCHANGED << now, matches, orders >>

\* lines 265-291 up to the await inside repo.updateStatus.  The deadline is
\* compared with one reading of the clock (line 273); the order id (line 287)
\* and acceptedAt (repository line 100) are later readings `stamp`, by which
\* the clock may have moved on.
AcceptCheck(p) ==
    /\ calls[p].pc = "acc_check"
    /\ LET c == calls[p]
           d == AcceptDecision(c.snap, now)
       IN  \E stamp \in now..MaxClock :
              /\ d # OK => stamp = now
              /\ now' = stamp
              /\ calls' = [calls EXCEPT ![p] =
                    CASE d = OK ->
                           [c EXCEPT !.pc = "acc_update", !.t = now,
                              !.upd = Some(MatchUpdateData(ACCEPTED,
                                   [NoDetails EXCEPT !.orderId = Some(MockOrderId(stamp))], stamp))]
                      [] d = MATCH_EXPIRED ->
                           [c EXCEPT !.pc = "acc_expire", !.t = now,
                              !.upd = Some(MatchUpdateData(EXPIRED, NoDetails, now))]
                      [] OTHER -> Finish(c, d, None)]
    /\ UNCHANGED << matches, orders, ncalls >>

\* await this.repo.updateStatus(matchId, EXPIRED); throw 'Match has expired'
AcceptExpire(p) ==
    /\ calls[p].pc = "acc_expire"
    /\ LET c == calls[p]
       IN  /\ matches' = [matches EXCEPT ![c.id] = MatchApplyUpdate(@, Val(c.upd))]
           /\ calls' = [calls EXCEPT ![p] = Finish([c EXCEPT !.wrote = @ + 1], MATCH_EXPIRED, None)]
    /\ UNCHANGED << now, orders, ncalls >>

\* an accept that, for a partial acceptance, also lowers quantityMatched and totalAmount
AcceptUpdate_PartialReconciles(p) ==
    /\ calls[p].pc = "acc_update"
    /\ LET c == calls[p]
           upd == MatchApplyUpdate(matches[c.id], Val(c.upd))
           row == IF c.isPartial
                     THEN [upd EXCEPT !.quantityMatched = @ - 1, !.totalAmount = @ - upd.pricePerKg]
                     ELSE upd
       IN  /\ matches' = [matches EXCEPT ![c.id] = row]
           /\ calls' = [calls EXCEPT ![p] = Finish([c EXCEPT !.wrote = @ + 1], OK, Some(row))]
    /\ UNCHANGED << now, orders, ncalls >>

\* await this.repo.updateStatus(matchId, ACCEPTED, {orderId}); return updatedMatch
AcceptUpdate(p) ==
    /\ calls[p].pc = "acc_update"
    /\ LET c == calls[p]
           row == MatchApplyUpdate(matches[c.id], Val(c.upd))
       IN  /\ matches' = [matches EXCEPT ![c.id] = row]
           /\ calls' = [calls EXCEPT ![p] = Finish([c EXCEPT !.wrote = @ + 1], OK, Some(row))]
    /\ UNCHANGED << now, orders, ncalls >>

\* rejectMatch is called: await this.repo.findById(matchId)
RejectFindById(p, id, reason) ==
    /\ CanStart(p)
    /\ calls' = [calls EXCEPT ![p] = [IdleCall EXCEPT !.op = "reject", !.pc = "rej_check",
                    !.id = id, !.reason = reason, !.snap = MatchFindById(id),
                    !.st0 = IF id \in DOMAIN matches THEN matches[id].status ELSE ""]]
    /\ ncalls' = ncalls + 1
    /\ UNCHANGED << now, matches, orders >>

\* lines 304-316 up to the await inside repo.updateStatus
RejectCheck(p) ==
    /\ calls[p].pc = "rej_check"
    /\ LET c == calls[p]
           d == RejectDecision(c.snap)
       IN  calls' = [calls EXCEPT ![p] =
             IF d = OK
               THEN [c EXCEPT !.pc = "rej_update", !.t = now,
                       !.upd = Some(MatchUpdateData(REJECTED,
                                   [NoDetails EXCEPT !.rejectionReason =
                                       IF c.reason # "" THEN Some(c.reason) ELSE None], now))]
               ELSE Finish(c, d, None)]
    /\ UNCHANGED << now, matches, orders, ncalls >>

RejectUpdate(p) ==
    /\ calls[p].pc = "rej_update"
    /\ LET c == calls[p]
           row == MatchApplyUpdate(matches[c.id], Val(c.upd))
       IN  /\ matches' = [matches EXCEPT ![c.id] = row]
           /\ calls' = [calls EXCEPT ![p] = Finish([c EXCEPT !.wrote = @ + 1], OK, Some(row))]
    /\ UNCHANGED << now, orders, ncalls >>

\* expireMatches(): the query's `lte: new Date()` is built when the call is made
ExpireCall(p) ==
    /\ CanStart(p)
    /\ calls' = [calls EXCEPT ![p] = [IdleCall EXCEPT !.op = "expire", !.pc = "exp_find", !.t = now]]
    /\ ncalls' = ncalls + 1
    /\ UNCHANGED << now, matches, orders >>

\* await this.repo.findExpiredPendingMatches()
ExpireFind(p) ==
    /\ calls[p].pc = "exp_find"
    /\ \E batch \in TakeSets(ExpiredPending(calls[p].t), BatchLimit) :
          calls' = [calls EXCEPT ![p] =
             IF batch = {} THEN Finish(calls[p], OK, Some(0))
             ELSE [calls[p] EXCEPT !.todo = batch, !.batch = batch, !.pc = "exp_update"]]
    /\ UNCHANGED << now, matches, orders, ncalls >>

\* a turn of the loop that counts the match and leaves its row as it was
ExpireUpdate_CountOnly(p) ==
    /\ calls[p].pc = "exp_update"
    /\ \E m \in NextInBatch(calls[p].todo) :
         LET c == [calls[p] EXCEPT !.todo = @ \ {m}, !.count = @ + 1, !.wrote = @ + 1]
         IN  calls' = [calls EXCEPT ![p] =
                          IF c.todo = {} THEN Finish(c, OK, Some(c.count)) ELSE c]
    /\ UNCHANGED << now, matches, orders, ncalls >>

\* one turn of the loop: await this.repo.updateStatus(match.id, EXPIRED); count++
ExpireUpdate(p) ==
    /\ calls[p].pc = "exp_update"
    /\ \E m \in NextInBatch(calls[p].todo) :
         LET c == [calls[p] EXCEPT !.todo = @ \ {m}, !.count = @ + 1, !.wrote = @ + 1]
         IN  /\ matches' = [matches EXCEPT ![m] =
                               MatchApplyUpdate(@, MatchUpdateData(EXPIRED, NoDetails, now))]
             /\ calls' = [calls EXCEPT ![p] =
                            IF c.todo = {} THEN Finish(c, OK, Some(c.count)) ELSE c]
    /\ UNCHANGED << now, orders, ncalls >>

\* the wall clock
Tick ==
    /\ now < MaxClock
    /\ now' = now + 1
    /\ UNCHANGED << matches, orders, calls, ncalls >>


\* =====================================================================
\* Order repository (src/src/repositories/order-status.repository.ts)
\* =====================================================================

\* one entry of status_history
TimelineEvent(status) ==
    [ step |-> getStepNumber(status), status |-> status, completed |-> TRUE, active |-> TRUE ]

\* the push without the forEach that clears the active flags
AppendEvent_KeepActive(history, newStatus) ==
    Append(history, TimelineEvent(newStatus))

\* history.forEach(e => e.active = false); history.push(newEvent)
AppendEvent(history, newStatus) ==
    Append([i \in 1..Len(history) |-> [history[i] EXCEPT !.active = FALSE]],
           TimelineEvent(newStatus))

\* parseStatusHistory: null is [], an array is itself
parseStatusHistory(history) == IF history = None THEN << >> ELSE history

StatusOfStep(n) == CHOOSE s \in OrderTrackingStatus : STATUS_STEP_MAP[s] = n

\* the timeline of an order that was created LISTED and moved step by step to
\* step n, as the data model describes it: one entry per stage reached, all
\* completed, the last one active
RECURSIVE HistoryUpTo(_)
HistoryUpTo(n) ==
    IF n <= 1 THEN << TimelineEvent("LISTED") >>
    ELSE LET earlier == HistoryUpTo(n - 1)
         IN  Append([i \in 1..Len(earlier) |-> [earlier[i] EXCEPT !.active = FALSE]],
                    TimelineEvent(StatusOfStep(n)))

NewOrder(farmerId, status) ==
    [ farmerId |-> farmerId, trackingStatus |-> status,
      statusHistory |-> HistoryUpTo(STATUS_STEP_MAP[status]),
      eta |-> None, delayMinutes |-> None, delayReason |-> None,
      upiTransactionId |-> None, haulerId |-> None,
      totalAmount |-> Some(1800), createdAt |-> 0, updatedAt |-> 0, paidAt |-> None,
      deletedAt |-> None ]

\* findByOrderNumber: null, or the row mapped to OrderWithTracking
findByOrderNumber(orderNumber) ==
    IF orderNumber \notin DOMAIN orders THEN None
    ELSE LET order == orders[orderNumber]
         IN  Some([ id |-> orderNumber, farmerId |-> order.farmerId,
                    trackingStatus |-> order.trackingStatus,
                    currentStep |-> getStepNumber(order.trackingStatus), totalSteps |-> 7,
                    eta |-> order.eta, delayMinutes |-> order.delayMinutes,
                    delayReason |-> order.delayReason, hauler |-> order.haulerId,
                    statusHistory |-> parseStatusHistory(order.statusHistory),
                    upiTransactionId |-> order.upiTransactionId ])

\* the optional columns of updateStatus's updateData
OptionalUpdate(dto) ==
    LET set == {f \in {"haulerId", "eta", "delayMinutes", "delayReason", "upiTransactionId"} :
                   IsSome(dto[IF f = "haulerId" THEN "haulerInfo" ELSE f])}
    IN  [f \in set |-> dto[IF f = "haulerId" THEN "haulerInfo" ELSE f]]

\* updateData that carries the status and leaves the history for a later write
OrderUpdateData_StatusOnly(current, dto) ==
    LET opt == OptionalUpdate(dto)
        base == [ trackingStatus |-> dto.newStatus ]
    IN  [f \in DOMAIN base \cup DOMAIN opt |-> IF f \in DOMAIN base THEN base[f] ELSE opt[f]]

\* updateStatus lines 245-281: the updateData built from the row read at line 236
OrderUpdateData(current, dto) ==
    LET opt == OptionalUpdate(dto)
        base == [ trackingStatus |-> dto.newStatus,
                  statusHistory |-> AppendEvent(parseStatusHistory(current.statusHistory),
                                                dto.newStatus) ]
    IN  [f \in DOMAIN base \cup DOMAIN opt |-> IF f \in DOMAIN base THEN base[f] ELSE opt[f]]

\* the data with eta written whether or not a new one was given
DelayUpdateData_AlwaysEta(dto) ==
    [delayMinutes |-> Some(dto.delayMinutes), delayReason |-> Some(dto.reason),
     eta |-> dto.newEta]

\* updateDelay's data
DelayUpdateData(dto) ==
    IF IsSome(dto.newEta)
       THEN [delayMinutes |-> Some(dto.delayMinutes), delayReason |-> Some(dto.reason),
             eta |-> dto.newEta]
       ELSE [delayMinutes |-> Some(dto.delayMinutes), delayReason |-> Some(dto.reason)]

\* prisma.order.update({where: {orderNumber}, data})
OrderApplyUpdate(row, data) ==
    [f \in DOMAIN row |-> IF f \in DOMAIN data THEN data[f] ELSE row[f]]

\* =====================================================================
\* Order status service (src/src/services/order-status.service.ts)
\* =====================================================================

\* the two checks in the other order
validateStatusTransition_TableFirst(currentStatus, newStatus) ==
    IF ~isValidTransition(currentStatus, newStatus) THEN INVALID_TRANSITION
    ELSE IF currentStatus = newStatus THEN ALREADY_IN_STATUS
    ELSE OK

validateStatusTransition(currentStatus, newStatus) ==
    IF currentStatus = newStatus THEN ALREADY_IN_STATUS
    ELSE IF ~isValidTransition(currentStatus, newStatus) THEN INVALID_TRANSITION
    ELSE OK

\* updateStatus lines 129-138 on the order read at line 127
UpdateStatusDecision(current, newStatus) ==
    IF current = None THEN ORDER_NOT_FOUND
    ELSE validateStatusTransition(Val(current).trackingStatus, newStatus)

\* the optional fields of an UpdateOrderStatusDTO: none given, or all given
NoOptions == [h |-> None, e |-> None, dm |-> None, dr |-> None, u |-> None]
AllOptions ==
    [h |-> Some("h1"), e |-> Some(1), dm |-> Some(0), dr |-> Some("rain"), u |-> Some("upi1")]

UpdateOrderStatusDTO(o, s, x) ==
    [ orderId |-> o, newStatus |-> s, haulerInfo |-> x.h, eta |-> x.e,
      delayMinutes |-> x.dm, delayReason |-> x.dr, upiTransactionId |-> x.u ]

\* the calls tried: every target status on the order, one call on a missing order
UpdateStatusDTOs ==
    { UpdateOrderStatusDTO(o, s, x) :
        o \in OrderIds, s \in OrderTrackingStatus, x \in {NoOptions, AllOptions} }
    \cup { UpdateOrderStatusDTO(NoOrderId, "MATCHED", NoOptions) }

UpdateDelayDTO(o, e) ==
    [ orderId |-> o, delayMinutes |-> 30, reason |-> "traffic", newEta |-> e ]

UpdateDelayDTOs ==
    { UpdateDelayDTO(o, e) : o \in OrderIds, e \in {None, Some(2)} }
    \cup { UpdateDelayDTO(NoOrderId, None) }

\* updateStatus is called: await this.repo.findByOrderNumber(dto.orderId), then lines 129-138
UpdateStatusFind(p, dto) ==
    /\ CanStart(p)
    /\ LET current == findByOrderNumber(dto.orderId)
           d == UpdateStatusDecision(current, dto.newStatus)
           c == [IdleCall EXCEPT !.op = "updateStatus", !.id = dto.orderId,
                    !.newStatus = dto.newStatus, !.dto = Some(dto),
                    !.st0 = IF current = None THEN "" ELSE Val(current).trackingStatus]
       IN  calls' = [calls EXCEPT ![p] =
             IF d = OK THEN [c EXCEPT !.pc = "us_repo_find"] ELSE Finish(c, d, None)]
    /\ ncalls' = ncalls + 1
    /\ UNCHANGED << now, matches, orders >>

\* repo.updateStatus: await prisma.order.findUnique (line 236), then lines 241-281
RepoUpdateStatusFind(p) ==
    /\ calls[p].pc = "us_repo_find"
    /\ LET c == calls[p]
       IN  calls' = [calls EXCEPT ![p] =
             IF c.id \notin DOMAIN orders THEN Finish(c, REPO_ORDER_NOT_FOUND, None)
             ELSE [c EXCEPT !.pc = "us_update",
                            !.upd = Some(OrderUpdateData(orders[c.id], Val(c.dto)))]]
    /\ UNCHANGED << now, matches, orders, ncalls >>

\* repo.updateStatus: await prisma.order.update (line 283)
RepoUpdateStatusWrite(p) ==
    /\ calls[p].pc = "us_update"
    /\ LET c == calls[p]
       IN  /\ orders' = [orders EXCEPT ![c.id] = OrderApplyUpdate(@, Val(c.upd))]
           /\ calls' = [calls EXCEPT ![p] = [c EXCEPT !.pc = "us_reread", !.upd = None,
                                                      !.wrote = @ + 1]]
    /\ UNCHANGED << now, matches, ncalls >>

\* the transition validated only after the update, against the updated order
UpdateStatusReturn_LateValidation(c, updated) ==
    Finish(c, UpdateStatusDecision(updated, c.newStatus), updated)

\* updateStatus lines 141-153: the event is emitted and logged, `updated` is returned
UpdateStatusReturn(c, updated) == Finish(c, OK, updated)

\* repo.updateStatus: return this.findByOrderNumber(orderId); the service returns it
RepoUpdateStatusReread(p) ==
    /\ calls[p].pc = "us_reread"
    /\ calls' = [calls EXCEPT ![p] = UpdateStatusReturn(calls[p], findByOrderNumber(calls[p].id))]
    /\ UNCHANGED << now, matches, orders, ncalls >>

\* updateDelay is called: await this.repo.findByOrderNumber(dto.orderId), then lines 164-170
UpdateDelayFind(p, dto) ==
    /\ CanStart(p)
    /\ LET current == findByOrderNumber(dto.orderId)
           c == [IdleCall EXCEPT !.op = "updateDelay", !.id = dto.orderId, !.dto = Some(dto),
                    !.st0 = IF current = None THEN "" ELSE Val(current).trackingStatus]
       IN  calls' = [calls EXCEPT ![p] =
             IF current = None THEN Finish(c, ORDER_NOT_FOUND, None)
             ELSE [c EXCEPT !.pc = "ud_update"]]
    /\ ncalls' = ncalls + 1
    /\ UNCHANGED << now, matches, orders >>

\* await this.repo.updateDelay(...)
UpdateDelayWrite(p) ==
    /\ calls[p].pc = "ud_update"
    /\ LET c == calls[p]
       IN  /\ orders' = [orders EXCEPT ![c.id] = OrderApplyUpdate(@, DelayUpdateData(Val(c.dto)))]
           /\ calls' = [calls EXCEPT ![p] = Finish([c EXCEPT !.wrote = @ + 1], OK, None)]
    /\ UNCHANGED << now, matches, ncalls >>

\* ---------------------------------------------------------- order queries

\* the page size of the order list when the filter gives none
OrderListDefaultLimit == 20

\* findByFarmerId lines 54-63: the statuses a status filter lets through
TrackingStatusFilter(status) ==
    IF status = "active"
       THEN {"LISTED", "MATCHED", "PICKUP_SCHEDULED", "AT_DROP_POINT", "IN_TRANSIT", "DELIVERED"}
    ELSE IF status = "completed" THEN {"PAID"}
    ELSE OrderTrackingStatus

\* findByFarmerId's where: farmerId, deletedAt null, trackingStatus in the filter
OrdersOfFarmer(farmerId, status) ==
    {o \in DOMAIN orders :
        /\ orders[o].farmerId = farmerId
        /\ orders[o].deletedAt = None
        /\ orders[o].trackingStatus \in TrackingStatusFilter(status)}

\* orderBy createdAt desc: every order of the rows of S with createdAt
\* descending (rows created at the same instant come in any order)
RECURSIVE NewestFirst(_)
NewestFirst(S) ==
    IF S = {} THEN { << >> }
    ELSE UNION { { << o >> \o rest : rest \in NewestFirst(S \ {o}) } :
                 o \in {x \in S : \A y \in S : orders[x].createdAt >= orders[y].createdAt} }

\* findByFarmerId lines 106-124: a row mapped to an OrderListItem
OrderListItem(o) ==
    [ id |-> o, trackingStatus |-> orders[o].trackingStatus,
      currentStep |-> getStepNumber(orders[o].trackingStatus), totalSteps |-> 7,
      totalAmount |-> orders[o].totalAmount, eta |-> orders[o].eta,
      delayMinutes |-> orders[o].delayMinutes, createdAt |-> orders[o].createdAt ]

\* const { farmerId, status, page = 1, limit = 20 } = filter
FilterPage(filter) == IF IsSome(filter.page) THEN Val(filter.page) ELSE 1
FilterLimit(filter) == IF IsSome(filter.limit) THEN Val(filter.limit) ELSE OrderListDefaultLimit

\* prisma.order.findMany of findByFarmerId: the lists it may return
findManyByFarmerId(filter) ==
    { LET page == Page(rows, FilterLimit(filter), (FilterPage(filter) - 1) * FilterLimit(filter))
      IN  [i \in 1..Len(page) |-> OrderListItem(page[i])] :
      rows \in NewestFirst(OrdersOfFarmer(filter.farmerId, filter.status)) }

\* prisma.order.count of findByFarmerId
countByFarmerId(filter) == Cardinality(OrdersOfFarmer(filter.farmerId, filter.status))

\* countActiveByFarmerId: farmerId, deletedAt null, trackingStatus notIn [PAID]
countActiveByFarmerId(farmerId) ==
    Cardinality({o \in DOMAIN orders :
                    /\ orders[o].farmerId = farmerId
                    /\ orders[o].deletedAt = None
                    /\ orders[o].trackingStatus \notin {"PAID"}})

\* OrderStatusService.validateFarmerId: !farmerId || farmerId <= 0
validateFarmerId(farmerId) == IF farmerId = 0 \/ farmerId <= 0 THEN UNAUTHORIZED ELSE OK

\* getOrderDetails without its ownership check
GetOrderDetailsDecision_NoOwner(order, farmerId) ==
    IF validateFarmerId(farmerId) # OK THEN validateFarmerId(farmerId)
    ELSE IF order = None THEN ORDER_NOT_FOUND
    ELSE OK

\* getOrderDetails lines 84-103, on what findByOrderNumber returned
GetOrderDetailsDecision(order, farmerId) ==
    IF validateFarmerId(farmerId) # OK THEN validateFarmerId(farmerId)
    ELSE IF order = None THEN ORDER_NOT_FOUND
    ELSE IF Val(order).farmerId # farmerId THEN UNAUTHORIZED
    ELSE OK

\* getOrderDetails(orderId, farmerId): validateFarmerId, await findByOrderNumber,
\* the two checks, return order
GetOrderDetails(p, orderId, farmerId) ==
    /\ CanStart(p)
    /\ LET order == findByOrderNumber(orderId)
           d == GetOrderDetailsDecision(order, farmerId)
           c == [IdleCall EXCEPT !.op = "getOrderDetails", !.id = orderId, !.farmerId = farmerId]
       IN  calls' = [calls EXCEPT ![p] = Finish(c, d, IF d = OK THEN order ELSE None)]
    /\ ncalls' = ncalls + 1
    /\ UNCHANGED << now, matches, orders >>

\* getActiveOrderCount(farmerId): validateFarmerId, return repo.countActiveByFarmerId
GetActiveOrderCount(p, farmerId) ==
    /\ CanStart(p)
    /\ LET d == validateFarmerId(farmerId)
           c == [IdleCall EXCEPT !.op = "getActiveOrderCount", !.farmerId = farmerId]
       IN  calls' = [calls EXCEPT ![p] =
             Finish(c, d, IF d = OK THEN Some(countActiveByFarmerId(farmerId)) ELSE None)]
    /\ ncalls' = ncalls + 1
    /\ UNCHANGED << now, matches, orders >>

\* getOrders(filter) is called: validateFarmerId, then repo.findByFarmerId
\* issues its count and its findMany together (Promise.all)
GetOrdersCall(p, filter) ==
    /\ CanStart(p)
    /\ LET d == validateFarmerId(filter.farmerId)
           c == [IdleCall EXCEPT !.op = "getOrders", !.farmerId = filter.farmerId,
                                 !.dto = Some(filter)]
       IN  calls' = [calls EXCEPT ![p] =
             IF d # OK THEN Finish(c, d, None)
             ELSE [c EXCEPT !.pc = "go_query", !.queries = {"count", "findMany"},
                            !.part = Some([total |-> None, orders |-> None])]]
    /\ ncalls' = ncalls + 1
    /\ UNCHANGED << now, matches, orders >>

\* getOrders lines 68-75: the page as the repository returned it
GetOrdersReturn(c, found) ==
    Finish(c, OK, Some([ orders |-> Val(found.orders),
                         pagination |-> [ page |-> FilterPage(Val(c.dto)),
                                          limit |-> FilterLimit(Val(c.dto)),
                                          total |-> Val(found.total) ] ]))

\* one of the two queries of findByFarmerId is answered by the store; with
\* both answered the service returns
FindByFarmerIdQuery(p, q) ==
    /\ calls[p].pc = "go_query"
    /\ q \in calls[p].queries
    /\ LET c == calls[p]
           filter == Val(c.dto)
       IN  \E rows \in findManyByFarmerId(filter) :
              LET found == IF q = "count"
                              THEN [Val(c.part) EXCEPT !.total = Some(countByFarmerId(filter))]
                              ELSE [Val(c.part) EXCEPT !.orders = Some(rows)]
              IN  calls' = [calls EXCEPT ![p] =
                    IF c.queries = {q} THEN GetOrdersReturn(c, found)
                    ELSE [c EXCEPT !.queries = @ \ {q}, !.part = Some(found)]]
    /\ UNCHANGED << now, matches, orders, ncalls >>

\* =====================================================================
\* Transaction service (TransactionService in src/unnamed/part_002) and the
\* aggregation queries of the order repository
\* =====================================================================

\* The clock counts in ticks: TicksPerDay to the day, months of DaysPerMonth days.
DaysPerMonth == 30
TicksPerMonth == DaysPerMonth * TicksPerDay

\* new Date(now.getFullYear(), now.getMonth(), 1): the first instant of t's month
StartOfMonth(t) == t - (t % TicksPerMonth)

\* date.setDate(date.getDate() - days): the same time of day, `days` days earlier
DaysBefore(t, days) == t - days * TicksPerDay

\* Math.floor((t - since) / (1000 * 60 * 60 * 24))
DaysSince(since, t) == (t - since) \div TicksPerDay

\* days a receipt stays downloadable, days the transaction list reaches back,
\* the page size of the transaction list when the filter gives none
ReceiptDays == 90
DefaultRangeDays == 90
TransactionDefaultLimit == 20

\* TransactionService.validateFarmerId: !farmerId || farmerId <= 0
validateTransactionFarmerId(farmerId) ==
    IF farmerId = 0 \/ farmerId <= 0 THEN INVALID_FARMER_ID ELSE OK

\* the rows of an aggregate's where: farmerId, trackingStatus, deletedAt null
OrdersInStatus(farmerId, status) ==
    {o \in DOMAIN orders :
        /\ orders[o].farmerId = farmerId
        /\ orders[o].trackingStatus = status
        /\ orders[o].deletedAt = None}

\* ... and updatedAt >= since
OrdersUpdatedSince(farmerId, status, since) ==
    {o \in OrdersInStatus(farmerId, status) : orders[o].updatedAt >= since}

\* _sum: { totalAmount: true }: null over no amounts, else the sum of the non-null ones
RECURSIVE SumTotalAmount(_)
SumTotalAmount(S) ==
    LET priced == {o \in S : orders[o].totalAmount # None}
    IN  IF priced = {} THEN None
        ELSE LET o == CHOOSE x \in priced : TRUE
                 rest == SumTotalAmount(priced \ {o})
             IN  Some(Val(orders[o].totalAmount) + (IF rest = None THEN 0 ELSE Val(rest)))

\* sum?.toNumber() ?? 0
OrZero(sum) == IF sum = None THEN 0 ELSE Val(sum)

\* the five queries getEarningsSummary issues together (Promise.all)
EarningsQueries ==
    {"totalEarnings", "monthEarnings", "pendingEarnings", "totalCount", "monthCount"}

\* pending summed over PAID rows as well
EarningsQueryResult_PendingAll(q, farmerId, startOfMonth) ==
    CASE q = "totalEarnings" -> SumTotalAmount(OrdersInStatus(farmerId, "PAID"))
      [] q = "monthEarnings" -> SumTotalAmount(OrdersUpdatedSince(farmerId, "PAID", startOfMonth))
      [] q = "pendingEarnings" ->
            SumTotalAmount(OrdersInStatus(farmerId, "DELIVERED") \cup OrdersInStatus(farmerId, "PAID"))
      [] q = "totalCount" -> Some(Cardinality(OrdersInStatus(farmerId, "PAID")))
      [] q = "monthCount" -> Some(Cardinality(OrdersUpdatedSince(farmerId, "PAID", startOfMonth)))

\* what the store answers to query q of getEarningsSummary
EarningsQueryResult(q, farmerId, startOfMonth) ==
    CASE q = "totalEarnings" -> SumTotalAmount(OrdersInStatus(farmerId, "PAID"))
      [] q = "monthEarnings" -> SumTotalAmount(OrdersUpdatedSince(farmerId, "PAID", startOfMonth))
      [] q = "pendingEarnings" -> SumTotalAmount(OrdersInStatus(farmerId, "DELIVERED"))
      [] q = "totalCount" -> Some(Cardinality(OrdersInStatus(farmerId, "PAID")))
      [] q = "monthCount" -> Some(Cardinality(OrdersUpdatedSince(farmerId, "PAID", startOfMonth)))

\* getEarningsSummary lines 405-415: the summary built from the five answers
EarningsSummary(answers) ==
    [ total |-> OrZero(answers["totalEarnings"]),
      thisMonth |-> OrZero(answers["monthEarnings"]),
      pending |-> OrZero(answers["pendingEarnings"]),
      orderCount |-> [ total |-> Val(answers["totalCount"]),
                       thisMonth |-> Val(answers["monthCount"]) ],
      newSinceLastVisit |-> 0, currency |-> "INR" ]

\* getEarnings(farmerId) is called: validateFarmerId, then getEarningsSummary
\* reads the clock and issues its five queries
GetEarningsCall(p, farmerId) ==
    /\ CanStart(p)
    /\ LET d == validateTransactionFarmerId(farmerId)
           c == [IdleCall EXCEPT !.op = "getEarnings", !.farmerId = farmerId]
       IN  calls' = [calls EXCEPT ![p] =
             IF d # OK THEN Finish(c, d, None)
             ELSE [c EXCEPT !.pc = "ge_query", !.t = now, !.queries = EarningsQueries,
                            !.part = Some([q \in {} |-> None])]]
    /\ ncalls' = ncalls + 1
    /\ UNCHANGED << now, matches, orders >>

\* one of the five queries is answered by the store; with all answered
\* getEarnings returns the summary
EarningsQuery(p, q) ==
    /\ calls[p].pc = "ge_query"
    /\ q \in calls[p].queries
    /\ LET c == calls[p]
           had == Val(c.part)
           answers == [x \in DOMAIN had \cup {q} |->
                          IF x = q THEN EarningsQueryResult(q, c.farmerId, StartOfMonth(c.t))
                          ELSE had[x]]
       IN  calls' = [calls EXCEPT ![p] =
             IF c.queries = {q} THEN [Finish(c, OK, Some(EarningsSummary(answers))) EXCEPT !.t = c.t]
             ELSE [c EXCEPT !.queries = @ \ {q}, !.part = Some(answers)]]
    /\ UNCHANGED << now, matches, orders, ncalls >>

\* getTransactions lines 436-442: the statuses a status filter lets through
TransactionStatusFilter(status) ==
    IF status = "completed" THEN {"PAID"}
    ELSE IF status = "pending" THEN {"DELIVERED"}
    ELSE {"PAID", "DELIVERED"}

\* getTransactions lines 454-456: the object spreads of the where clause.  Each
\* spread sets the key createdAt, so a later one replaces an earlier one.
CreatedAtWithin(createdAt, filter, defaultFromDate) ==
    IF IsSome(filter.toDate) THEN createdAt <= Val(filter.toDate)
    ELSE IF IsSome(filter.fromDate) THEN createdAt >= Val(filter.fromDate)
    ELSE createdAt >= defaultFromDate

\* getTransactions' where, with defaultFromDate computed at clock t
TransactionsOf(filter, t) ==
    {o \in DOMAIN orders :
        /\ orders[o].farmerId = filter.farmerId
        /\ orders[o].deletedAt = None
        /\ orders[o].trackingStatus \in TransactionStatusFilter(filter.status)
        /\ CreatedAtWithin(orders[o].createdAt, filter, DaysBefore(t, DefaultRangeDays))}

\* getTransactions lines 487-502: a row mapped to a TransactionListItem
TransactionListItem(o) ==
    [ id |-> o, date |-> orders[o].createdAt, amount |-> OrZero(orders[o].totalAmount),
      status |-> IF orders[o].trackingStatus = "PAID" THEN "completed" ELSE "pending" ]

TransactionPage(filter) == IF IsSome(filter.page) THEN Val(filter.page) ELSE 1
TransactionLimit(filter) ==
    IF IsSome(filter.limit) THEN Val(filter.limit) ELSE TransactionDefaultLimit

\* prisma.order.findMany of getTransactions, sorted by date descending (the
\* default sortBy and sortOrder): the lists it may return
findManyTransactions(filter, t) ==
    { LET page == Page(rows, TransactionLimit(filter),
                       (TransactionPage(filter) - 1) * TransactionLimit(filter))
      IN  [i \in 1..Len(page) |-> TransactionListItem(page[i])] :
      rows \in NewestFirst(TransactionsOf(filter, t)) }

\* the default start added whenever the caller gave no start
AppliedFilter_NoFromDate(filter, t) ==
    IF filter.fromDate = None
       THEN [filter EXCEPT !.fromDate = Some(DaysBefore(t, DefaultRangeDays))]
       ELSE filter

\* TransactionService.getTransactions lines 84-90: the filter handed to the repository
AppliedFilter(filter, t) ==
    IF filter.fromDate = None /\ filter.toDate = None
       THEN [filter EXCEPT !.fromDate = Some(DaysBefore(t, DefaultRangeDays))]
       ELSE filter

\* getTransactions(filter) is called: validateFarmerId, the default range, then
\* repo.getTransactions issues its count and its findMany together.  dto is
\* the caller's filter, upd the filter handed to the repository.
GetTransactionsCall(p, filter) ==
    /\ CanStart(p)
    /\ LET d == validateTransactionFarmerId(filter.farmerId)
           c == [IdleCall EXCEPT !.op = "getTransactions", !.farmerId = filter.farmerId,
                                 !.dto = Some(filter)]
       IN  calls' = [calls EXCEPT ![p] =
             IF d # OK THEN Finish(c, d, None)
             ELSE [c EXCEPT !.pc = "gt_query", !.t = now, !.queries = {"count", "findMany"},
                            !.upd = Some(AppliedFilter(filter, now)),
                            !.part = Some([total |-> None, transactions |-> None])]]
    /\ ncalls' = ncalls + 1
    /\ UNCHANGED << now, matches, orders >>

\* getTransactions lines 504-512: the page with its pagination
GetTransactionsReturn(c, found) ==
    LET page == TransactionPage(Val(c.upd))
        limit == TransactionLimit(Val(c.upd))
    IN  Finish(c, OK, Some([ transactions |-> Val(found.transactions),
                             pagination |-> [ page |-> page, limit |-> limit,
                                              total |-> Val(found.total),
                                              hasMore |-> page * limit < Val(found.total) ] ]))

\* one of the two queries of getTransactions is answered by the store; with
\* both answered the service returns
TransactionsQuery(p, q) ==
    /\ calls[p].pc = "gt_query"
    /\ q \in calls[p].queries
    /\ LET c == calls[p]
           filter == Val(c.upd)
       IN  \E rows \in findManyTransactions(filter, c.t) :
              LET found == IF q = "count"
                              THEN [Val(c.part) EXCEPT
                                      !.total = Some(Cardinality(TransactionsOf(filter, c.t)))]
                              ELSE [Val(c.part) EXCEPT !.transactions = Some(rows)]
              IN  calls' = [calls EXCEPT ![p] =
                    IF c.queries = {q} THEN GetTransactionsReturn(c, found)
                    ELSE [c EXCEPT !.queries = @ \ {q}, !.part = Some(found)]]
    /\ UNCHANGED << now, matches, orders, ncalls >>

\* the findFirst without farmerId in its where
findTransaction_NoOwner(orderId, farmerId) ==
    IF /\ orderId \in DOMAIN orders
       /\ orders[orderId].deletedAt = None
       /\ orders[orderId].trackingStatus \in {"PAID", "DELIVERED"}
       THEN Some(orders[orderId]) ELSE None

\* getTransactionDetails' findFirst: orderNumber, farmerId, deletedAt null, PAID or DELIVERED
findTransaction(orderId, farmerId) ==
    IF /\ orderId \in DOMAIN orders
       /\ orders[orderId].farmerId = farmerId
       /\ orders[orderId].deletedAt = None
       /\ orders[orderId].trackingStatus \in {"PAID", "DELIVERED"}
       THEN Some(orders[orderId]) ELSE None

\* the window with its last day left out
CanDownloadReceipt_Under90(order, t) ==
    LET paidDate == IF IsSome(order.paidAt) THEN Val(order.paidAt) ELSE order.updatedAt
    IN  DaysSince(paidDate, t) < ReceiptDays

\* lines 567-570: paidAt ?? updatedAt, whole days since then at clock t, at most 90
CanDownloadReceipt(order, t) ==
    LET paidDate == IF IsSome(order.paidAt) THEN Val(order.paidAt) ELSE order.updatedAt
    IN  DaysSince(paidDate, t) <= ReceiptDays

\* lines 578-613: the row mapped to TransactionDetails at clock t (the
\* references of the model are shorter than the 8 characters the mask keeps)
TransactionDetails(orderId, order, t) ==
    [ id |-> orderId, hauler |-> order.haulerId,
      timeline |-> parseStatusHistory(order.statusHistory),
      payment |-> [ baseAmount |-> OrZero(order.totalAmount), qualityBonus |-> 0,
                    platformFee |-> 0, netAmount |-> OrZero(order.totalAmount),
                    upiTxnId |-> order.upiTransactionId, paidAt |-> order.paidAt ],
      createdAt |-> order.createdAt,
      canDownloadReceipt |-> CanDownloadReceipt(order, t) ]

\* repo.getTransactionDetails(orderId, farmerId): the row is read, then the
\* clock (Date.now(), a later read than the query's)
RepoTransactionDetails(orderId, farmerId, t) ==
    LET order == findTransaction(orderId, farmerId)
    IN  IF order = None THEN None ELSE Some(TransactionDetails(orderId, Val(order), t))

\* the call that fills in a missing paidAt from updatedAt while it reads the order
GetTransactionDetails_BackfillPaidAt(p, transactionId, farmerId) ==
    /\ CanStart(p)
    /\ LET d == validateTransactionFarmerId(farmerId)
           details == RepoTransactionDetails(transactionId, farmerId, now)
           c == [IdleCall EXCEPT !.op = "getTransactionDetails", !.id = transactionId,
                                 !.farmerId = farmerId]
       IN  /\ calls' = [calls EXCEPT ![p] =
                 IF d # OK THEN Finish(c, d, None)
                 ELSE IF details = None THEN Finish(c, TRANSACTION_NOT_FOUND, None)
                 ELSE [Finish(c, OK, details) EXCEPT !.t = now]]
           /\ orders' = IF d = OK /\ details # None /\ orders[transactionId].paidAt = None
                           THEN [orders EXCEPT ![transactionId].paidAt =
                                    Some(orders[transactionId].updatedAt)]
                           ELSE orders
    /\ ncalls' = ncalls + 1
    /\ UNCHANGED << now, matches >>

\* getTransactionDetails(transactionId, farmerId): validateFarmerId, await
\* repo.getTransactionDetails, TRANSACTION_NOT_FOUND on null, return details
GetTransactionDetails(p, transactionId, farmerId) ==
    /\ CanStart(p)
    /\ \E stamp \in now..MaxClock :
          LET d == validateTransactionFarmerId(farmerId)
              details == RepoTransactionDetails(transactionId, farmerId, stamp)
              c == [IdleCall EXCEPT !.op = "getTransactionDetails", !.id = transactionId,
                                    !.farmerId = farmerId]
          IN  /\ (d # OK \/ details = None) => stamp = now
              /\ now' = stamp
              /\ calls' = [calls EXCEPT ![p] =
                    IF d # OK THEN Finish(c, d, None)
                    ELSE IF details = None THEN Finish(c, TRANSACTION_NOT_FOUND, None)
                    ELSE [Finish(c, OK, details) EXCEPT !.t = stamp]]
    /\ ncalls' = ncalls + 1
    /\ UNCHANGED << matches, orders >>

\* canDownloadReceipt(transactionId, farmerId): the same, returning the flag alone
CanDownloadReceiptCall(p, transactionId, farmerId) ==
    /\ CanStart(p)
    /\ \E stamp \in now..MaxClock :
          LET d == validateTransactionFarmerId(farmerId)
              details == RepoTransactionDetails(transactionId, farmerId, stamp)
              c == [IdleCall EXCEPT !.op = "canDownloadReceipt", !.id = transactionId,
                                    !.farmerId = farmerId]
          IN  /\ (d # OK \/ details = None) => stamp = now
              /\ now' = stamp
              /\ calls' = [calls EXCEPT ![p] =
                    IF d # OK THEN Finish(c, d, None)
                    ELSE IF details = None THEN Finish(c, TRANSACTION_NOT_FOUND, None)
                    ELSE [Finish(c, OK, Some(Val(details).canDownloadReceipt)) EXCEPT !.t = stamp]]
    /\ ncalls' = ncalls + 1
    /\ UNCHANGED << matches, orders >>

\* =====================================================================
\* The system
\* =====================================================================

\* matches as repo.create left them, with deadlines ahead of the clock
InitMatches == \E e \in [MatchIds -> 1..MaxClock] : matches = [m \in MatchIds |-> NewMatch(e[m])]
\* an order somewhere on its way from LISTED to PAID
InitOrders == \E s \in OrderTrackingStatus : orders = [o \in OrderIds |-> NewOrder(1, s)]

Init ==
    /\ now = 0
    /\ InitMatches
    /\ InitOrders
    /\ calls = [p \in Procs |-> IdleCall]
    /\ ncalls = 0

\* a store with more matches due than one sweep takes: BatchLimit matches
\* that come due at clock 1
BatchMatchIds == {"b" \o ToString(i) : i \in 1..BatchLimit}

\* a match accepted at clock t, as acceptMatch leaves it
AcceptedMatch(expiresAt, t) ==
    MatchApplyUpdate(NewMatch(expiresAt),
        MatchUpdateData(ACCEPTED, [NoDetails EXCEPT !.orderId = Some(MockOrderId(t))], t))

\* the match engine alone: the order stays as created
InitMatch == Init /\ orders = [o \in OrderIds |-> NewOrder(1, "LISTED")]
\* the order engine alone: no match comes due
InitOrder == Init /\ matches = [m \in MatchIds |-> NewMatch(MaxClock)]

\* a match call is made (up to its first await)
StartMatch ==
    \E p \in Procs :
       \/ \E id \in MatchIds \cup {NoMatchId}, isPartial \in BOOLEAN : AcceptFindById(p, id, isPartial)
       \/ \E id \in MatchIds \cup {NoMatchId}, reason \in RejectionReasons : RejectFindById(p, id, reason)
       \/ ExpireCall(p)

\* a match call in flight takes its next step
StepMatch ==
    \E p \in Procs :
       \/ AcceptCheck(p) \/ AcceptExpire(p) \/ AcceptUpdate(p)
       \/ RejectCheck(p) \/ RejectUpdate(p)
       \/ ExpireFind(p) \/ ExpireUpdate(p)

\* an order call is made (up to its first await)
StartOrder ==
    \E p \in Procs :
       \/ \E dto \in UpdateStatusDTOs : UpdateStatusFind(p, dto)
       \/ \E dto \in UpdateDelayDTOs : UpdateDelayFind(p, dto)

\* an order call in flight takes its next step
StepOrder ==
    \E p \in Procs :
       \/ RepoUpdateStatusFind(p) \/ RepoUpdateStatusWrite(p) \/ RepoUpdateStatusReread(p)
       \/ UpdateDelayWrite(p)

\* The match engine and the order engine share no row: the whole service is
\* their interleaving, and each is checked on its own.
NextMatch == StartMatch \/ StepMatch \/ Tick
NextOrder == StartOrder \/ StepOrder
Next == NextMatch \/ NextOrder

\* calls interleave at their awaits
Spec == Init /\ [][Next]_vars
SpecMatch == InitMatch /\ [][NextMatch]_vars
SpecOrder == InitOrder /\ [][NextOrder]_vars

\* one call at a time: a call is made only when no other is in flight
NextMatchSeq == (NoneInFlight /\ StartMatch) \/ StepMatch \/ Tick
NextOrderSeq == (NoneInFlight /\ StartOrder) \/ StepOrder
SpecMatchSeq == InitMatch /\ [][NextMatchSeq]_vars

\* a match rejected at clock t, as rejectMatch leaves it
RejectedMatch(expiresAt, t) ==
    MatchApplyUpdate(NewMatch(expiresAt),
        MatchUpdateData(REJECTED, [NoDetails EXCEPT !.rejectionReason = Some("SOLD_ELSEWHERE")], t))

\* a match the sweep found past its deadline
ExpiredMatch(expiresAt) ==
    MatchApplyUpdate(NewMatch(expiresAt), MatchUpdateData(EXPIRED, NoDetails, expiresAt))

\* the farmer ids the queries are tried with: two farmers, zero, a negative id
FarmerIds == {1, 2, 0, -1}

\* a farmer with more pending matches than one page of the pending list:
\* match i of PendingDefaultLimit + 1 comes due at clock i
QueryMatch(i) == "q" \o ToString(i)
QueryMatchIds == {QueryMatch(i) : i \in 1..(PendingDefaultLimit + 1)}

\* the rows a match can be found in at clock 0: pending with a deadline ahead,
\* accepted or rejected at clock 0, expired at clock 0
MatchRowsAtStart ==
    {NewMatch(e) : e \in 1..MaxClock}
       \cup {AcceptedMatch(1, 0), RejectedMatch(1, 0), ExpiredMatch(0)}

\* the pending list on a store of the matches above, all of farmer 1, and two
\* more matches of either farmer in any of the rows above
InitPending ==
    /\ now = 0
    /\ \E owner \in [MatchIds -> {1, 2}], row \in [MatchIds -> MatchRowsAtStart] :
          matches = [m \in QueryMatchIds \cup MatchIds |->
                        IF m \in MatchIds THEN [row[m] EXCEPT !.farmerId = owner[m]]
                        ELSE NewMatch(CHOOSE i \in 1..(PendingDefaultLimit + 1) : QueryMatch(i) = m)]
    /\ orders = [o \in OrderIds |-> NewOrder(1, "LISTED")]
    /\ calls = [p \in Procs |-> IdleCall]
    /\ ncalls = 0

\* the pending list is asked for, one call at a time, as the clock advances
NextPending ==
    \/ NoneInFlight /\ \E p \in Procs, farmerId \in FarmerIds : GetPendingMatches(p, farmerId)
    \/ Tick
SpecPending == InitPending /\ [][NextPending]_vars

\* the sweep on a store of BatchLimit + 2 matches: BatchLimit of them come due
\* at clock 1, one more at clock MaxClock, and one was accepted at clock 0
InitSweepBatch ==
    /\ now = 0
    /\ \E pending \in MatchIds :
          matches = [m \in BatchMatchIds \cup MatchIds |->
                        IF m \in BatchMatchIds THEN NewMatch(1)
                        ELSE IF m = pending THEN NewMatch(MaxClock)
                        ELSE AcceptedMatch(1, 0)]
    /\ orders = [o \in OrderIds |-> NewOrder(1, "LISTED")]
    /\ calls = [p \in Procs |-> IdleCall]
    /\ ncalls = 0

\* the sweeps of the cron job, one at a time
NextSweepBatch ==
    \/ NoneInFlight /\ \E p \in Procs : ExpireCall(p)
    \/ \E p \in Procs : ExpireFind(p) \/ ExpireUpdate(p)
    \/ Tick
SpecSweepBatch == InitSweepBatch /\ [][NextSweepBatch]_vars
SpecOrderSeq == InitOrder /\ [][NextOrderSeq]_vars

\* the filters getOrders is tried with: every farmer id and status filter,
\* with the default page or the second page of pages of one
GetOrdersFilters ==
    { [farmerId |-> f, status |-> st, page |-> pg.page, limit |-> pg.limit] :
        f \in FarmerIds, st \in {"active", "completed", "all"},
        pg \in { [page |-> None, limit |-> None], [page |-> Some(2), limit |-> Some(1)] } }

\* the orders of the query store besides those of OrderIds
QueryOrderIds == {"o2", "o3"}

\* a soft-deleted order: deletedAt set at clock t
Tombstoned(row, t) == [row EXCEPT !.deletedAt = Some(t)]

\* the order engine with its read paths, on a store of three orders: one of
\* farmer 1 anywhere on its way and soft-deleted or not, one of farmer 2, and a
\* later one of farmer 1 that was delivered
InitOrderQuery ==
    /\ now = 0
    /\ matches = [m \in MatchIds |-> NewMatch(MaxClock)]
    /\ \E s \in OrderTrackingStatus, deleted \in BOOLEAN, s2 \in {"IN_TRANSIT", "PAID"} :
          orders = [o \in OrderIds \cup QueryOrderIds |->
                      IF o = "o2" THEN NewOrder(2, s2)
                      ELSE IF o = "o3" THEN [NewOrder(1, "DELIVERED") EXCEPT !.createdAt = 1]
                      ELSE IF deleted THEN Tombstoned(NewOrder(1, s), 0)
                      ELSE NewOrder(1, s)]
    /\ calls = [p \in Procs |-> IdleCall]
    /\ ncalls = 0

\* an order query is made (up to its first await)
StartOrderQuery ==
    \E p \in Procs :
       \/ \E filter \in GetOrdersFilters : GetOrdersCall(p, filter)
       \/ \E o \in OrderIds \cup QueryOrderIds \cup {NoOrderId}, f \in FarmerIds :
             GetOrderDetails(p, o, f)
       \/ \E f \in FarmerIds : GetActiveOrderCount(p, f)

\* an order query in flight takes its next step
StepOrderQuery ==
    \E p \in Procs, q \in {"count", "findMany"} : FindByFarmerIdQuery(p, q)

\* updates and queries of the order engine, one call at a time
NextOrderQuery ==
    \/ NoneInFlight /\ (StartOrder \/ StartOrderQuery)
    \/ StepOrder
    \/ StepOrderQuery
SpecOrderQuery == InitOrderQuery /\ [][NextOrderQuery]_vars


\* the filters getTransactions is tried with: the bare filter for every farmer
\* id, and for farmer 1 every status filter, with no dates, a start, an end or
\* both, on the default page or the second page of pages of one
TransactionFilters ==
    { [farmerId |-> f, status |-> "all", fromDate |-> None, toDate |-> None,
       page |-> None, limit |-> None] : f \in FarmerIds }
    \cup
    { [farmerId |-> 1, status |-> st, fromDate |-> d.fromDate, toDate |-> d.toDate,
       page |-> pg.page, limit |-> pg.limit] :
        st \in {"all", "completed", "pending"},
        d \in { [fromDate |-> None, toDate |-> None], [fromDate |-> Some(-1), toDate |-> None],
                [fromDate |-> None, toDate |-> Some(-2)], [fromDate |-> Some(-1), toDate |-> Some(0)] },
        pg \in { [page |-> None, limit |-> None], [page |-> Some(2), limit |-> Some(1)] } }

\* the aggregation layer on a store of three orders.  The clock starts at the
\* first instant of a month.  o1: of farmer 1, paid, delivered or in transit,
\* soft-deleted or not, last updated this month or last, with a payment date 90
\* days back or none.  o2: of farmer 1, paid, created over 90 days ago, last
\* updated 90 days ago, without a payment date.  o3: of farmer 2, paid or delivered.
InitTransactions ==
    /\ now = 0
    /\ matches = [m \in MatchIds |-> NewMatch(MaxClock)]
    /\ \E s \in {"PAID", "DELIVERED", "IN_TRANSIT"}, deleted \in BOOLEAN, u \in {-1, 0},
          paid \in {None, Some(DaysBefore(0, ReceiptDays))}, s3 \in {"PAID", "DELIVERED"} :
          orders = [o \in OrderIds \cup QueryOrderIds |->
                      IF o = "o2"
                         THEN [NewOrder(1, "PAID") EXCEPT !.totalAmount = Some(700),
                                  !.createdAt = DaysBefore(0, DefaultRangeDays + 1),
                                  !.updatedAt = DaysBefore(0, ReceiptDays)]
                      ELSE IF o = "o3"
                         THEN [NewOrder(2, s3) EXCEPT !.totalAmount = Some(500), !.createdAt = -2]
                      ELSE LET row == [NewOrder(1, s) EXCEPT !.createdAt = -2, !.updatedAt = u,
                                          !.paidAt = IF s = "PAID" THEN paid ELSE None]
                           IN  IF deleted THEN Tombstoned(row, u) ELSE row]
    /\ calls = [p \in Procs |-> IdleCall]
    /\ ncalls = 0

\* an aggregation call is made (up to its first await)
StartTransaction ==
    \E p \in Procs :
       \/ \E f \in FarmerIds : GetEarningsCall(p, f)
       \/ \E filter \in TransactionFilters : GetTransactionsCall(p, filter)
       \/ \E o \in OrderIds \cup QueryOrderIds \cup {NoOrderId}, f \in FarmerIds :
             GetTransactionDetails(p, o, f) \/ CanDownloadReceiptCall(p, o, f)

\* an aggregation call in flight takes its next step
StepTransaction ==
    \E p \in Procs :
       \/ \E q \in EarningsQueries : EarningsQuery(p, q)
       \/ \E q \in {"count", "findMany"} : TransactionsQuery(p, q)

\* the aggregation layer, one call at a time, as the clock advances
NextTransactions ==
    \/ NoneInFlight /\ StartTransaction
    \/ StepTransaction
    \/ Tick
SpecTransactions == InitTransactions /\ [][NextTransactions]_vars


\* =====================================================================
\* gRPC facade (src/unnamed/part_003, src/src/grpc/services/match.handlers.ts,
\* src/src/grpc/transaction.handlers.ts)
\* =====================================================================

\* grpc.status, by name
INVALID_ARGUMENT == "INVALID_ARGUMENT"
NOT_FOUND == "NOT_FOUND"
PERMISSION_DENIED == "PERMISSION_DENIED"
FAILED_PRECONDITION == "FAILED_PRECONDITION"
INTERNAL == "INTERNAL"
RECEIPT_EXPIRED == "RECEIPT_EXPIRED"
\* the Error of a store query that rejected: no domain error, no gRPC code
STORE_FAILURE == "STORE_FAILURE"
\* a handler that answered before it called its service
REQUEST_REFUSED == "REQUEST_REFUSED"

\* what a handler hands to its callback: a response, an error that carries a
\* gRPC code, or an error object without one
Response == [ok |-> TRUE, code |-> None]
GrpcError(code) == [ok |-> FALSE, code |-> Some(code)]
BareError == [ok |-> FALSE, code |-> None]

\* the operations behind each handler family
OrderHandlerOps == {"getOrders", "getOrderDetails", "getActiveOrderCount", "updateStatus", "updateDelay"}
MatchHandlerOps == {"getPendingMatches", "accept", "reject", "expire"}
TransactionHandlerOps == {"getEarnings", "getTransactions", "getTransactionDetails"}

\* PROTO_STATUS_MAP: proto enum number to tracking status, or undefined
PROTO_STATUS_MAP(n) ==
    CASE n = 1 -> Some("LISTED")
      [] n = 2 -> Some("MATCHED")
      [] n = 3 -> Some("PICKUP_SCHEDULED")
      [] n = 4 -> Some("AT_DROP_POINT")
      [] n = 5 -> Some("IN_TRANSIT")
      [] n = 6 -> Some("DELIVERED")
      [] n = 7 -> Some("PAID")
      [] OTHER -> None

\* parseInt(farmer_id, 10) on the farmer ids tried: the number, or NaN
ParseFarmerId(farmer_id) ==
    CASE farmer_id = "1" -> Some(1)
      [] farmer_id = "2" -> Some(2)
      [] farmer_id = "0" -> Some(0)
      [] OTHER -> None

\* OrderStatusErrorCode
OrderStatusErrorCodes == {ORDER_NOT_FOUND, INVALID_TRANSITION, ALREADY_IN_STATUS, UNAUTHORIZED}

\* OrderStatusHandlers.handleError: the code table for an OrderStatusError,
\* INTERNAL for anything else
OrderHandleError(error) ==
    IF error \in OrderStatusErrorCodes
       THEN GrpcError(CASE error = ORDER_NOT_FOUND -> NOT_FOUND
                        [] error = INVALID_TRANSITION -> FAILED_PRECONDITION
                        [] error = ALREADY_IN_STATUS -> FAILED_PRECONDITION
                        [] error = UNAUTHORIZED -> PERMISSION_DENIED)
       ELSE GrpcError(INTERNAL)

\* err.message.includes('expired'), on the messages the match service throws
IncludesExpired(message) == message = MATCH_EXPIRED

\* the catch blocks of the match handlers
MatchHandleError(op, message) ==
    CASE op = "accept" ->
           IF IncludesExpired(message) THEN GrpcError(FAILED_PRECONDITION)
           ELSE IF message = MATCH_NOT_FOUND THEN GrpcError(NOT_FOUND)
           ELSE GrpcError(INTERNAL)
      [] op = "reject" ->
           IF message = MATCH_NOT_FOUND THEN GrpcError(NOT_FOUND) ELSE GrpcError(INTERNAL)
      [] OTHER -> GrpcError(INTERNAL)

\* TransactionErrorCode
TransactionErrorCodes == {TRANSACTION_NOT_FOUND, INVALID_FARMER_ID, RECEIPT_EXPIRED}

\* TransactionHandlers.mapErrorCode: 5, 3, 9, and 13 for a code off the table
mapErrorCode(code) ==
    CASE code = TRANSACTION_NOT_FOUND -> NOT_FOUND
      [] code = INVALID_FARMER_ID -> INVALID_ARGUMENT
      [] code = RECEIPT_EXPIRED -> FAILED_PRECONDITION
      [] OTHER -> INTERNAL

\* TransactionHandlers.handleError: a TransactionError gets its mapped code;
\* any other error is handed to the callback as it was thrown
TransactionHandleError(error) ==
    IF error \in TransactionErrorCodes THEN GrpcError(mapErrorCode(error)) ELSE BareError

\* the one callback a handler makes for its call c, once the service call
\* has returned or thrown (the callback runs in the same turn as the return)
Callback(c) ==
    IF c.result = OK THEN Response
    ELSE IF c.result = REQUEST_REFUSED THEN GrpcError(INVALID_ARGUMENT)
    ELSE IF c.op \in OrderHandlerOps THEN OrderHandleError(c.result)
    ELSE IF c.op \in MatchHandlerOps THEN MatchHandleError(c.op, c.result)
    ELSE TransactionHandleError(c.result)

\* updateTrackingStatus: an unknown proto status is answered at once (lines
\* 248-255), any other request goes to service.updateStatus
UpdateTrackingStatus(p, order_id, new_status) ==
    LET newStatus == PROTO_STATUS_MAP(new_status)
    IN  IF newStatus = None
           THEN /\ CanStart(p)
                /\ calls' = [calls EXCEPT ![p] =
                      Finish([IdleCall EXCEPT !.op = "updateStatus", !.id = order_id],
                             REQUEST_REFUSED, None)]
                /\ ncalls' = ncalls + 1
                /\ UNCHANGED << now, matches, orders >>
           ELSE UpdateStatusFind(p, UpdateOrderStatusDTO(order_id, Val(newStatus), NoOptions))

\* GetPendingMatches: a farmer_id that is no number is answered at once, any
\* other goes to matchService.getPendingMatches
GetPendingMatchesHandler(p, farmer_id) ==
    LET farmerIdInt == ParseFarmerId(farmer_id)
    IN  IF farmerIdInt = None
           THEN /\ CanStart(p)
                /\ calls' = [calls EXCEPT ![p] =
                      Finish([IdleCall EXCEPT !.op = "getPendingMatches"], REQUEST_REFUSED, None)]
                /\ ncalls' = ncalls + 1
                /\ UNCHANGED << now, matches, orders >>
           ELSE GetPendingMatches(p, Val(farmerIdInt))

\* the store query a call in flight awaits rejects: no service catches it,
\* so the call throws the store's error to its handler
StoreRejects(p) ==
    /\ InFlight(p)
    /\ calls' = [calls EXCEPT ![p] = Finish(calls[p], STORE_FAILURE, None)]
    /\ UNCHANGED << now, matches, orders, ncalls >>

\* the facade on a store of two matches, one due at clock 1, and three orders:
\* o1 of farmer 1 in transit, o2 of farmer 1 paid, o3 of farmer 2 delivered
InitFacade ==
    /\ now = 0
    /\ matches = [m \in MatchIds |-> NewMatch(IF m = "m1" THEN 1 ELSE MaxClock)]
    /\ orders = [o \in OrderIds \cup QueryOrderIds |->
                    IF o = "o2" THEN [NewOrder(1, "PAID") EXCEPT !.createdAt = -1]
                    ELSE IF o = "o3" THEN NewOrder(2, "DELIVERED")
                    ELSE NewOrder(1, "IN_TRANSIT")]
    /\ calls = [p \in Procs |-> IdleCall]
    /\ ncalls = 0

\* the requests the transaction list handler is tried with
FacadeFilters == {f \in TransactionFilters : f.status = "all" /\ f.page = None}

\* a handler is called (up to the first await of its service call)
StartFacade ==
    \E p \in Procs :
       \/ \E o \in {"o1", NoOrderId}, n \in {0, 5, 6} : UpdateTrackingStatus(p, o, n)
       \/ \E o \in {"o1", NoOrderId} : UpdateDelayFind(p, UpdateDelayDTO(o, None))
       \/ \E f \in {1, 0} :
             GetOrdersCall(p, [farmerId |-> f, status |-> "all", page |-> Some(1),
                               limit |-> Some(OrderListDefaultLimit)])
       \/ \E o \in {"o1", "o3", NoOrderId}, f \in {1, 0} : GetOrderDetails(p, o, f)
       \/ \E f \in {1, 0} : GetActiveOrderCount(p, f)
       \/ \E farmer_id \in {"1", "abc"} : GetPendingMatchesHandler(p, farmer_id)
       \/ \E id \in {"m1", NoMatchId} : AcceptFindById(p, id, FALSE)
       \/ \E id \in {"m1", NoMatchId} : RejectFindById(p, id, "SOLD_ELSEWHERE")
       \/ ExpireCall(p)
       \/ \E f \in {1, 0} : GetEarningsCall(p, f)
       \/ \E filter \in FacadeFilters : GetTransactionsCall(p, filter)
       \/ \E o \in {"o2", "o3"}, f \in {1, 0} : GetTransactionDetails(p, o, f)

\* a call in flight takes its next step, or loses its store query
StepFacade ==
    \/ StepMatch
    \/ StepOrder
    \/ StepOrderQuery
    \/ StepTransaction
    \/ \E p \in Procs : StoreRejects(p)

\* the three handler families, one call at a time, as the clock advances
NextFacade ==
    \/ NoneInFlight /\ StartFacade
    \/ StepFacade
    \/ Tick
SpecFacade == InitFacade /\ [][NextFacade]_vars


\* getEarnings beside updateStatus, calls interleaving at their awaits, on a
\* store of three orders: o1 of farmer 1 delivered and unpaid, o2 of farmer 1
\* paid, o3 of farmer 2 delivered
InitEarningsRace ==
    /\ now = 0
    /\ matches = [m \in MatchIds |-> NewMatch(MaxClock)]
    /\ orders = [o \in OrderIds \cup QueryOrderIds |->
                    IF o = "o2" THEN [NewOrder(1, "PAID") EXCEPT !.totalAmount = Some(700)]
                    ELSE IF o = "o3" THEN [NewOrder(2, "DELIVERED") EXCEPT !.totalAmount = Some(500)]
                    ELSE NewOrder(1, "DELIVERED")]
    /\ calls = [p \in Procs |-> IdleCall]
    /\ ncalls = 0

\* getEarnings(1) and updateStatus(o1, PAID) calls, made and stepped in any order
NextEarningsRace ==
    \E p \in Procs :
       \/ GetEarningsCall(p, 1)
       \/ \E q \in EarningsQueries : EarningsQuery(p, q)
       \/ \E x \in {NoOptions, AllOptions} : UpdateStatusFind(p, UpdateOrderStatusDTO("o1", "PAID", x))
       \/ RepoUpdateStatusFind(p) \/ RepoUpdateStatusWrite(p) \/ RepoUpdateStatusReread(p)
SpecEarningsRace == InitEarningsRace /\ [][NextEarningsRace]_vars


\* the cron job invokes expireMatches: a sweep like any other, but the job
\* runs for as long as the service does, so no bound on the calls made applies
CronExpireCall(p) ==
    /\ ~InFlight(p)
    /\ \A q \in Procs : q < p => InFlight(q)
    /\ calls' = [calls EXCEPT ![p] = [IdleCall EXCEPT !.op = "expire", !.pc = "exp_find", !.t = now]]
    /\ UNCHANGED << now, matches, orders, ncalls >>

\* a sweep is invoked when none is running
CronStart == NoneInFlight /\ \E p \in Procs : CronExpireCall(p)
\* a sweep in flight takes its next step
CronStep == \E p \in Procs : ExpireFind(p) \/ ExpireUpdate(p)

\* the sweeps of the cron job without end, on the store of BatchLimit + 2
\* matches, as the clock advances
NextSweepCron ==
    \/ CronStart
    \/ CronStep
    \/ Tick
\* the job keeps invoking the sweep, and the store answers every query and
\* update of a sweep in flight
SpecSweepCron ==
    InitSweepBatch /\ [][NextSweepCron]_vars /\ WF_vars(CronStart) /\ WF_vars(CronStep)


\* =====================================================================
\* Properties
\* =====================================================================

IsAccept(p) == calls[p].op = "accept"
IsReject(p) == calls[p].op = "reject"
IsSweep(p) == calls[p].op = "expire"
IsUpdateStatus(p) == calls[p].op = "updateStatus"
Succeeded(p) == Done(p) /\ calls[p].result = OK
\* the call p returns or throws in this step
Returns(p) ==
    /\ calls'[p].pc = "done"
    /\ InFlight(p) \/ (ncalls' = ncalls + 1 /\ CanStart(p))

\* the seven stages in order, as the specification lists them
StatusChain ==
    << "LISTED", "MATCHED", "PICKUP_SCHEDULED", "AT_DROP_POINT", "IN_TRANSIT", "DELIVERED", "PAID" >>
StepOf(s) == CHOOSE i \in 1..Len(StatusChain) : StatusChain[i] = s
HasSuccessor(s) == StepOf(s) < Len(StatusChain)
Successor(s) == StatusChain[StepOf(s) + 1]

\* C1: a concurrent acceptMatch and rejectMatch that both found the match
\* PENDING_ACCEPTANCE, before its deadline, end with exactly one success; the
\* other fails having seen a status that is no longer pending, and the row
\* does not carry both an acceptance and a rejection.
C1_AcceptRejectOneWinner ==
    \A p, q \in Procs :
        ( /\ IsAccept(p) /\ IsReject(q) /\ Done(p) /\ Done(q)
          /\ calls[p].id = calls[q].id /\ calls[p].id \in MatchIds
          /\ calls[p].st0 = PENDING_ACCEPTANCE /\ calls[q].st0 = PENDING_ACCEPTANCE
          /\ now <= matches[calls[p].id].expiresAt )
        => /\ (calls[p].result = OK) # (calls[q].result = OK)
           /\ calls[p].result \in {OK, NO_LONGER_PENDING}
           /\ calls[q].result \in {OK, NO_LONGER_PENDING, NOT_REJECTABLE}
           /\ ~(IsSome(matches[calls[p].id].acceptedAt) /\ IsSome(matches[calls[p].id].rejectedAt))

\* C2: the expiry sweep and acceptMatch never both win the same match: no
\* match is reported accepted by acceptMatch and also written EXPIRED by a sweep.
C2_SweepAcceptOneWinner ==
    \A p, q \in Procs :
        ~( /\ IsAccept(p) /\ Succeeded(p)
           /\ IsSweep(q) /\ calls[p].id \in (calls[q].batch \ calls[q].todo) )

\* C3: for one match, at most one acceptMatch call returns success (so at
\* most one orderId is generated and persisted for it).
C3_AtMostOneAccept ==
    \A p, q \in Procs :
        ( /\ p # q /\ IsAccept(p) /\ IsAccept(q)
          /\ Succeeded(p) /\ Succeeded(q) ) => calls[p].id # calls[q].id

\* C4: from one state to the next the step number of an order's
\* trackingStatus never decreases, and an order that is PAID stays PAID.
C4_StatusMonotone ==
    [][ \A o \in OrderIds :
          /\ StepOf(orders'[o].trackingStatus) >= StepOf(orders[o].trackingStatus)
          /\ orders[o].trackingStatus = "PAID" => orders'[o].trackingStatus = "PAID" ]_vars

\* C5: once a match's status is ACCEPTED, REJECTED or EXPIRED it never
\* changes again, even when calls run one at a time.
C5_MatchTerminal ==
    [][ \A m \in MatchIds :
          matches[m].status \in TerminalMatchStatus
             => matches'[m].status = matches[m].status ]_vars

\* C6: updateStatus to the immediate successor of the status the order is in
\* (any status but PAID) succeeds, and the returned order has that successor
\* as trackingStatus and the next step number as currentStep.
C6_AdjacentSucceeds ==
    \A p \in Procs :
        ( /\ IsUpdateStatus(p) /\ Done(p)
          /\ calls[p].st0 \in OrderTrackingStatus /\ HasSuccessor(calls[p].st0)
          /\ calls[p].newStatus = Successor(calls[p].st0) )
        => /\ calls[p].result = OK
           /\ IsSome(calls[p].ret)
           /\ Val(calls[p].ret).trackingStatus = Successor(calls[p].st0)
           /\ Val(calls[p].ret).currentStep = StepOf(calls[p].st0) + 1

C6_Witness ==
    \E p \in Procs :
        /\ IsUpdateStatus(p) /\ Succeeded(p)
        /\ calls[p].st0 = "DELIVERED" /\ calls[p].newStatus = "PAID"
        /\ Val(calls[p].ret).trackingStatus = "PAID" /\ Val(calls[p].ret).currentStep = 7

\* C7: updateStatus to a status that is neither the current one nor its
\* immediate successor (any other target when the order is PAID) fails with
\* INVALID_TRANSITION.
C7_SkipOrBackwardRejected ==
    \A p \in Procs :
        ( /\ IsUpdateStatus(p) /\ Done(p)
          /\ calls[p].st0 \in OrderTrackingStatus
          /\ calls[p].newStatus # calls[p].st0
          /\ HasSuccessor(calls[p].st0) => calls[p].newStatus # Successor(calls[p].st0) )
        => calls[p].result = INVALID_TRANSITION

C7_Witness ==
    \E p \in Procs :
        /\ IsUpdateStatus(p) /\ Done(p)
        /\ calls[p].st0 = "LISTED" /\ calls[p].newStatus = "DELIVERED"
        /\ calls[p].result = INVALID_TRANSITION

\* C8: updateStatus to the status the order is already in fails with
\* ALREADY_IN_STATUS, for each of the seven statuses.
C8_SameStatusRejected ==
    \A p \in Procs :
        ( /\ IsUpdateStatus(p) /\ Done(p)
          /\ calls[p].st0 \in OrderTrackingStatus
          /\ calls[p].newStatus = calls[p].st0 )
        => calls[p].result = ALREADY_IN_STATUS

C8_Witness ==
    \E p \in Procs :
        /\ IsUpdateStatus(p) /\ Done(p)
        /\ calls[p].st0 = "PAID" /\ calls[p].newStatus = "PAID"
        /\ calls[p].result = ALREADY_IN_STATUS

\* C9: an updateStatus call that fails with ORDER_NOT_FOUND, ALREADY_IN_STATUS
\* or INVALID_TRANSITION has issued no repository write, and the step in which
\* it fails leaves every order row as it was.
C9_NoPartialMutation ==
    [][ \A p \in Procs :
          ( /\ Returns(p) /\ calls'[p].op = "updateStatus"
            /\ calls'[p].result \in {ORDER_NOT_FOUND, ALREADY_IN_STATUS, INVALID_TRANSITION} )
          => /\ calls'[p].wrote = 0
             /\ orders' = orders ]_vars

C9_Witness ==
    \E p \in Procs :
        /\ IsUpdateStatus(p) /\ Done(p)
        /\ calls[p].result = INVALID_TRANSITION /\ calls[p].wrote = 0
        /\ calls[p].st0 = orders[calls[p].id].trackingStatus
        /\ Len(orders[calls[p].id].statusHistory) = StepOf(calls[p].st0)

\* C10: acceptMatch on a PENDING_ACCEPTANCE match whose expiresAt is earlier
\* than the clock the call reads fails with 'Match has expired', and when it
\* returns the stored match is EXPIRED with orderId and acceptedAt unset.
C10_ExpiryPrecedence ==
    [][ \A p \in Procs :
          ( /\ Returns(p) /\ InFlight(p) /\ calls[p].op = "accept"
            /\ calls[p].id \in MatchIds
            /\ calls[p].st0 = PENDING_ACCEPTANCE
            /\ matches[calls[p].id].expiresAt < calls[p].t )
          => /\ calls'[p].result = MATCH_EXPIRED
             /\ matches'[calls[p].id].status = EXPIRED
             /\ matches'[calls[p].id].orderId = None
             /\ matches'[calls[p].id].acceptedAt = None ]_vars

C10_Witness ==
    \E p \in Procs :
        /\ IsAccept(p) /\ Done(p) /\ calls[p].result = MATCH_EXPIRED
        /\ calls[p].st0 = PENDING_ACCEPTANCE
        /\ matches[calls[p].id].status = EXPIRED
        /\ matches[calls[p].id].orderId = None
        /\ matches[calls[p].id].acceptedAt = None

\* C11: a match whose deadline has passed is never accepted: in every
\* reachable state a match with status ACCEPTED has acceptedAt <= expiresAt.
C11_AcceptedBeforeDeadline ==
    \A m \in MatchIds :
        matches[m].status = ACCEPTED
           => /\ IsSome(matches[m].acceptedAt)
              /\ Val(matches[m].acceptedAt) <= matches[m].expiresAt

\* C12: for every order, under any interleaving of updateStatus calls, the
\* step numbers of the entries of statusHistory are strictly increasing in
\* list order: no step appears twice and no entry is out of order.
C12_TimelineStrictlyIncreasing ==
    \A o \in OrderIds :
        LET h == orders[o].statusHistory
        IN  \A i, j \in 1..Len(h) : i < j => h[i].step < h[j].step

\* the updateStatus calls on order o whose write lands in this step; a call
\* whose write has landed returns success
WritesTransition(o) ==
    {p \in Procs : calls[p].pc = "us_update" /\ calls'[p].pc = "us_reread" /\ calls[p].id = o}

\* C13: the length of an order's statusHistory is the length of its initial
\* history plus the number of updateStatus calls on it that succeeded: every
\* step lengthens the history by exactly the number of successful transitions
\* that land in it, so no successful transition's event is lost.
C13_TimelineLength ==
    [][ \A o \in OrderIds :
          Len(orders'[o].statusHistory) =
             Len(orders[o].statusHistory) + Cardinality(WritesTransition(o)) ]_vars

\* C14: exactly one entry of statusHistory has active = true and it is the
\* last one; every earlier entry has active = false and completed = true.
C14_SingleActiveEntry ==
    \A o \in OrderIds :
        LET h == orders[o].statusHistory
        IN  /\ Len(h) >= 1
            /\ h[Len(h)].active
            /\ \A i \in 1..(Len(h) - 1) : ~h[i].active /\ h[i].completed

C14_Witness ==
    \E p \in Procs :
        /\ IsUpdateStatus(p) /\ Succeeded(p) /\ calls[p].wrote = 1
        /\ LET h == orders[calls[p].id].statusHistory
           IN  /\ Len(h) >= 3
               /\ h[Len(h)].status = calls[p].newStatus
               /\ h[Len(h)].active /\ ~h[Len(h) - 1].active /\ ~h[1].active

\* the matches that were PENDING_ACCEPTANCE with expiresAt <= now when the
\* sweep p was called, no other call running since: those still so, and those
\* the sweep has taken
EligibleAtCall(p) ==
    {m \in DOMAIN matches :
        /\ matches[m].expiresAt <= calls[p].t
        /\ matches[m].status = PENDING_ACCEPTANCE \/ m \in calls[p].batch}

\* C15: expireMatches called with k matches PENDING_ACCEPTANCE and
\* expiresAt <= now takes min(k, 100) of them, changes nothing but the status
\* of the matches it took, PENDING_ACCEPTANCE to EXPIRED, and returns with all
\* of them EXPIRED and their number as result; a match that was not
\* PENDING_ACCEPTANCE or whose expiresAt > now is left as it was.
C15_SweepEffect ==
    [][ \A p \in Procs :
          (IsSweep(p) /\ InFlight(p) /\ calls'[p] # calls[p])
          => LET taken == calls'[p].batch
             IN  /\ taken \subseteq EligibleAtCall(p)
                 /\ Cardinality(taken) = Min(Cardinality(EligibleAtCall(p)), BatchLimit)
                 /\ \A m \in DOMAIN matches :
                       matches'[m] # matches[m]
                          => /\ m \in taken
                             /\ matches[m].status = PENDING_ACCEPTANCE
                             /\ matches'[m] = [matches[m] EXCEPT !.status = EXPIRED]
                 /\ Returns(p)
                       => /\ calls'[p].result = OK
                          /\ calls'[p].ret = Some(Cardinality(taken))
                          /\ \A m \in taken : matches'[m].status = EXPIRED ]_vars

C15_Witness ==
    \E p \in Procs, left \in BatchMatchIds, other \in MatchIds :
        /\ IsSweep(p) /\ Succeeded(p)
        /\ Cardinality(calls[p].batch) = BatchLimit
        /\ calls[p].ret = Some(BatchLimit) /\ calls[p].wrote = BatchLimit
        /\ \A m \in calls[p].batch : matches[m].status = EXPIRED
        /\ left \notin calls[p].batch /\ matches[left] = NewMatch(1)
        /\ matches[other] = AcceptedMatch(1, 0)

\* a sweep called with no eligible match returns 0 in the step of its query,
\* having written nothing
NoneEligibleNoWrite(p) ==
    EligibleAtCall(p) = {}
       => /\ Returns(p)
          /\ calls'[p].ret = Some(0) /\ calls'[p].wrote = 0
          /\ matches' = matches

\* a sweep that returns leaves no match PENDING_ACCEPTANCE with a deadline at
\* or before the clock it was called at: a second sweep, called before any
\* match newly comes due, finds no eligible match
LeavesNoneEligible(p) ==
    Returns(p)
       => \A m \in DOMAIN matches :
             ~(matches'[m].status = PENDING_ACCEPTANCE /\ matches'[m].expiresAt <= calls[p].t)

\* C16 (as stated): expireMatches run with zero eligible matches returns 0 and
\* performs no writes; and of two calls in succession with no match newly
\* becoming expirable in between, the second returns 0 and changes nothing,
\* the first having left no eligible match behind.
C16_SweepIdempotent ==
    [][ \A p \in Procs :
          (IsSweep(p) /\ InFlight(p) /\ calls'[p] # calls[p])
          => NoneEligibleNoWrite(p) /\ LeavesNoneEligible(p) ]_vars

\* C16 (amended): expireMatches run with zero eligible matches returns 0 and
\* performs no writes; and of two calls in succession with no match newly
\* becoming expirable in between, the second returns 0 and changes nothing
\* provided the first was called with at most 100 eligible matches.
C16_SweepIdempotentWithinBatch ==
    [][ \A p \in Procs :
          (IsSweep(p) /\ InFlight(p) /\ calls'[p] # calls[p])
          => /\ NoneEligibleNoWrite(p)
             /\ Cardinality(EligibleAtCall(p)) <= BatchLimit => LeavesNoneEligible(p) ]_vars

C16_Witness ==
    \E p \in Procs :
        /\ IsSweep(p) /\ Succeeded(p) /\ ncalls >= 2
        /\ calls[p].ret = Some(0) /\ calls[p].wrote = 0 /\ calls[p].batch = {}
        /\ \A m \in BatchMatchIds : matches[m].status = EXPIRED
        /\ ExpiredPending(now) = {}

\* C17: acceptMatch fails with 'Match not found' when no match has the id,
\* and with 'Match is no longer pending acceptance' when the match it read is
\* ACCEPTED, REJECTED or EXPIRED, whatever its deadline; in both cases it has
\* issued no write and the step in which it fails leaves every match as it was.
C17_AcceptPreconditions ==
    [][ \A p \in Procs :
          (Returns(p) /\ calls'[p].op = "accept")
          => /\ calls'[p].id \notin DOMAIN matches
                  => /\ calls'[p].result = MATCH_NOT_FOUND
                     /\ calls'[p].wrote = 0 /\ matches' = matches
             /\ calls'[p].st0 \in TerminalMatchStatus
                  => /\ calls'[p].result = NO_LONGER_PENDING
                     /\ calls'[p].wrote = 0 /\ matches' = matches ]_vars

C17_Witness ==
    \E p \in Procs :
        /\ IsAccept(p) /\ Done(p) /\ calls[p].result = NO_LONGER_PENDING
        /\ calls[p].st0 = REJECTED /\ calls[p].wrote = 0
        /\ matches[calls[p].id].status = REJECTED
        /\ matches[calls[p].id].acceptedAt = None
        /\ now > matches[calls[p].id].expiresAt

\* C18: acceptMatch on a match it read as PENDING_ACCEPTANCE, at a clock not
\* past expiresAt, succeeds: the stored match is ACCEPTED with acceptedAt and
\* orderId set, and the call returns that match, with that status and orderId.
C18_AcceptSuccess ==
    [][ \A p \in Procs :
          ( /\ Returns(p) /\ InFlight(p) /\ calls[p].op = "accept"
            /\ calls[p].id \in DOMAIN matches
            /\ calls[p].st0 = PENDING_ACCEPTANCE
            /\ calls[p].t <= matches[calls[p].id].expiresAt )
          => LET row == matches'[calls[p].id]
             IN  /\ calls'[p].result = OK
                 /\ row.status = ACCEPTED
                 /\ IsSome(row.acceptedAt)
                 /\ IsSome(row.orderId)
                 /\ calls'[p].ret = Some(row) ]_vars

C18_Witness ==
    \E p \in Procs :
        /\ IsAccept(p) /\ Succeeded(p) /\ calls[p].st0 = PENDING_ACCEPTANCE
        /\ IsSome(calls[p].ret)
        /\ Val(calls[p].ret).status = ACCEPTED /\ IsSome(Val(calls[p].ret).orderId)
        /\ matches[calls[p].id] = Val(calls[p].ret)
        /\ Val(matches[calls[p].id].acceptedAt) <= matches[calls[p].id].expiresAt

\* C19: in every reachable state, under any interleaving of acceptMatch,
\* rejectMatch and expireMatches, a match whose orderId is set is ACCEPTED:
\* a PENDING_ACCEPTANCE, REJECTED or EXPIRED match has no orderId.
C19_OrderIdOnlyIfAccepted ==
    \A m \in MatchIds : IsSome(matches[m].orderId) => matches[m].status = ACCEPTED

MatchTerms(row) ==
    << row.farmerId, row.quantityMatched, row.pricePerKg, row.totalAmount, row.expiresAt >>

\* C21: rejectMatch on a match it read as PENDING_ACCEPTANCE or EXPIRED sets
\* status to REJECTED, stamps rejectedAt, records the reason supplied (an
\* empty reason is none), leaves orderId, acceptedAt and the terms of the
\* match as they were, touches no other match, and returns the stored match.
C21_RejectSuccess ==
    [][ \A p \in Procs :
          ( /\ Returns(p) /\ InFlight(p) /\ calls[p].op = "reject"
            /\ calls[p].st0 \in {PENDING_ACCEPTANCE, EXPIRED} )
          => LET id == calls[p].id
                 row == matches'[id]
             IN  /\ calls'[p].result = OK /\ calls'[p].ret = Some(row)
                 /\ row.status = REJECTED
                 /\ IsSome(row.rejectedAt)
                 /\ calls[p].reason # "" => row.rejectionReason = Some(calls[p].reason)
                 /\ calls[p].reason = "" => row.rejectionReason = matches[id].rejectionReason
                 /\ row.orderId = matches[id].orderId
                 /\ row.acceptedAt = matches[id].acceptedAt
                 /\ MatchTerms(row) = MatchTerms(matches[id])
                 /\ \A m \in DOMAIN matches \ {id} : matches'[m] = matches[m] ]_vars

C21_Witness ==
    \E p \in Procs :
        /\ IsReject(p) /\ Succeeded(p) /\ calls[p].st0 = PENDING_ACCEPTANCE
        /\ LET row == matches[calls[p].id]
           IN  /\ calls[p].ret = Some(row)
               /\ row.status = REJECTED /\ IsSome(row.rejectedAt)
               /\ row.rejectionReason = Some("SOLD_ELSEWHERE")
               /\ row.orderId = None /\ row.acceptedAt = None
               /\ MatchTerms(row) = MatchTerms(NewMatch(row.expiresAt))

\* C22: getPendingMatches(farmerId) returns exactly the matches of that
\* farmer that are PENDING_ACCEPTANCE with expiresAt > now: all of them, each
\* once, none of another farmer, none terminal, none past its deadline, in
\* ascending order of expiresAt.
C22_PendingList ==
    [][ \A p \in Procs :
          (Returns(p) /\ calls'[p].op = "getPendingMatches")
          => LET rows == Val(calls'[p].ret)
                 wanted == {m \in DOMAIN matches :
                               /\ matches[m].farmerId = calls'[p].farmerId
                               /\ matches[m].status = PENDING_ACCEPTANCE
                               /\ matches[m].expiresAt > now}
             IN  /\ {rows[i] : i \in 1..Len(rows)} = wanted
                 /\ Len(rows) = Cardinality(wanted)
                 /\ \A i, j \in 1..Len(rows) :
                       i < j => matches[rows[i]].expiresAt <= matches[rows[j]].expiresAt ]_vars

IsQuery(p, op) == Done(p) /\ calls[p].op = op

\* C24: order ownership.  A getOrderDetails call with a valid farmer id fails
\* with ORDER_NOT_FOUND when no order has the id and with UNAUTHORIZED when the
\* order belongs to another farmer, and what it returns on success is an order
\* of the caller; every order getOrders lists belongs to the farmer asked for;
\* getActiveOrderCount counts no more than the farmer's own orders.
C24_OrderOwnership ==
    \A p \in Procs :
       LET c == calls[p]
       IN  /\ IsQuery(p, "getOrderDetails") /\ c.farmerId > 0 =>
                /\ c.id \notin DOMAIN orders => c.result = ORDER_NOT_FOUND
                /\ c.id \in DOMAIN orders /\ orders[c.id].farmerId # c.farmerId =>
                      c.result = UNAUTHORIZED /\ c.ret = None
                /\ c.result = OK =>
                      Val(c.ret).id = c.id /\ Val(c.ret).farmerId = c.farmerId
           /\ IsQuery(p, "getOrders") /\ c.result = OK =>
                \A i \in 1..Len(Val(c.ret).orders) :
                   LET o == Val(c.ret).orders[i].id
                   IN  o \in DOMAIN orders /\ orders[o].farmerId = c.farmerId
           /\ IsQuery(p, "getActiveOrderCount") /\ c.result = OK =>
                Val(c.ret) <= Cardinality({o \in DOMAIN orders : orders[o].farmerId = c.farmerId})

\* farmer 2 asked for an order of farmer 1 and was refused, and the store
\* holds orders of both farmers
C24_Witness ==
    \E p \in Procs :
       /\ IsQuery(p, "getOrderDetails")
       /\ calls[p].id \in DOMAIN orders
       /\ calls[p].farmerId > 0
       /\ orders[calls[p].id].farmerId # calls[p].farmerId
       /\ calls[p].result = UNAUTHORIZED

\* C25: soft-deleted orders are invisible to the lifecycle engine.  No step
\* changes an order whose deletedAt is set, and an updateStatus, updateDelay or
\* getOrderDetails call on such an order ends with ORDER_NOT_FOUND.
C25_TombstonedInvisible ==
    [][\A o \in DOMAIN orders :
          orders[o].deletedAt # None =>
             /\ orders'[o] = orders[o]
             /\ \A p \in Procs :
                   /\ calls'[p].pc = "done" /\ calls'[p] # calls[p]
                   /\ calls'[p].op \in {"updateStatus", "updateDelay", "getOrderDetails"}
                   /\ calls'[p].id = o
                   /\ calls'[p].op = "getOrderDetails" => calls'[p].farmerId > 0
                   => calls'[p].result = ORDER_NOT_FOUND]_vars

\* C26: updateDelay frame.  The step in which an updateDelay call writes
\* changes its order alone, sets delayMinutes and delayReason to the call's
\* values and eta to newEta when one was given, and leaves every other column
\* (trackingStatus and statusHistory among them) as it was; a call on a missing
\* order ends with ORDER_NOT_FOUND at once and writes nothing.
C26_UpdateDelayFrame ==
    [][\A p \in Procs :
          /\ calls[p].pc = "ud_update" /\ calls'[p].pc = "done" =>
                LET o == calls[p].id
                    dto == Val(calls[p].dto)
                IN  /\ calls'[p].result = OK
                    /\ \A x \in DOMAIN orders \ {o} : orders'[x] = orders[x]
                    /\ orders'[o].delayMinutes = Some(dto.delayMinutes)
                    /\ orders'[o].delayReason = Some(dto.reason)
                    /\ orders'[o].eta = IF IsSome(dto.newEta) THEN dto.newEta ELSE orders[o].eta
                    /\ \A f \in DOMAIN orders[o] \ {"delayMinutes", "delayReason", "eta"} :
                          orders'[o][f] = orders[o][f]
          /\ /\ calls'[p].op = "updateDelay" /\ calls'[p] # calls[p]
             /\ calls'[p].id \notin DOMAIN orders
             => /\ calls'[p].pc = "done" /\ calls'[p].result = ORDER_NOT_FOUND
                /\ calls'[p].wrote = 0
                /\ orders' = orders]_vars

\* an updateDelay call without a new eta has written an order that had an eta
\* and is past LISTED: the eta and the timeline are still there
C26_Witness ==
    \E p \in Procs :
       /\ Done(p) /\ calls[p].op = "updateDelay" /\ calls[p].result = OK
       /\ calls[p].wrote = 1
       /\ orders[calls[p].id].delayMinutes = Some(30)
       /\ orders[calls[p].id].eta = Some(1)
       /\ Len(orders[calls[p].id].statusHistory) > 1

\* the operations that take a farmer id
FarmerIdOperations ==
    {"getOrders", "getOrderDetails", "getActiveOrderCount", "getPendingMatches",
     "getEarnings", "getTransactions", "getTransactionDetails", "canDownloadReceipt"}

\* C28: shared farmer-id rule.  Every finished call of an operation that takes
\* a farmer id, made with a farmer id that is zero or negative, has failed with
\* the invalid-farmer or the unauthorized error and returns nothing read from
\* the store.
C28_FarmerIdRule ==
    \A p \in Procs :
       Done(p) /\ calls[p].op \in FarmerIdOperations /\ calls[p].farmerId <= 0 =>
          calls[p].result \in {UNAUTHORIZED, INVALID_FARMER_ID} /\ calls[p].ret = None

\* the operations of the aggregation layer
AggregationOperations ==
    {"getEarnings", "getTransactions", "getTransactionDetails", "canDownloadReceipt"}

\* C29: aggregation is read-only.  Every step taken by a call of getEarnings,
\* getTransactions, getTransactionDetails or canDownloadReceipt, whether the
\* call goes on, returns or fails in it, leaves every order and every match
\* as it was.
C29_AggregationReadOnly ==
    [][\A p \in Procs :
          calls'[p] # calls[p] /\ calls'[p].op \in AggregationOperations =>
             orders' = orders /\ matches' = matches]_vars

\* the last of three aggregation calls has returned the details of a paid order
\* that carries no payment date
C29_Witness ==
    \E p \in Procs :
       /\ ncalls = MaxCalls
       /\ Done(p) /\ calls[p].op = "getTransactionDetails" /\ calls[p].result = OK
       /\ orders[calls[p].id].trackingStatus = "PAID"
       /\ orders[calls[p].id].paidAt = None

\* helper: the amounts of the orders of S added up, an order without amount counting 0
RECURSIVE AmountOf(_)
AmountOf(S) ==
    IF S = {} THEN 0
    ELSE LET o == CHOOSE x \in S : TRUE
         IN  (IF orders[o].totalAmount = None THEN 0 ELSE Val(orders[o].totalAmount))
                + AmountOf(S \ {o})

\* helper: the farmer's orders in a status that are not soft-deleted
LiveOrders(farmerId, status) ==
    {o \in DOMAIN orders : orders[o].farmerId = farmerId /\ orders[o].deletedAt = None
                            /\ orders[o].trackingStatus = status}

\* C30: earnings buckets.  A getEarnings call with a valid farmer id succeeds,
\* and in what it returns total is the sum of totalAmount over the farmer's
\* non-deleted PAID orders, pending the sum over the farmer's non-deleted
\* DELIVERED orders, thisMonth the sum over those PAID orders that were last
\* updated in the month the call was made in (so thisMonth <= total), and
\* orderCount.total the number of the PAID orders summed into total.
C30_EarningsBuckets ==
    \A p \in Procs :
       IsQuery(p, "getEarnings") /\ calls[p].farmerId > 0 =>
          LET f == calls[p].farmerId
              paid == LiveOrders(f, "PAID")
              ret == Val(calls[p].ret)
          IN  /\ calls[p].result = OK
              /\ ret.total = AmountOf(paid)
              /\ ret.pending = AmountOf(LiveOrders(f, "DELIVERED"))
              /\ ret.thisMonth =
                    AmountOf({o \in paid : orders[o].updatedAt >= StartOfMonth(calls[p].t)})
              /\ ret.thisMonth <= ret.total
              /\ ret.orderCount.total = Cardinality(paid)

\* farmer 1 has two live PAID orders, one of them updated this month, and
\* farmer 2 has an order too: getEarnings(1) returned 2500 in total, 1800 of it
\* this month
C30_Witness ==
    \E p \in Procs :
       /\ IsQuery(p, "getEarnings") /\ calls[p].farmerId = 1 /\ calls[p].result = OK
       /\ Val(calls[p].ret).total = 2500
       /\ Val(calls[p].ret).thisMonth = 1800
       /\ Val(calls[p].ret).orderCount.total = 2
       /\ \E o \in DOMAIN orders : orders[o].farmerId = 2

\* C31: transaction date range.  When getTransactions was called with both
\* fromDate and toDate, every transaction of the page it returns was created
\* from fromDate to toDate, and total is the number of the farmer's visible
\* orders created in that range.
C31_DateRange ==
    [][\A p \in Procs :
          /\ calls[p].pc = "gt_query" /\ calls'[p].pc = "done"
          /\ IsSome(Val(calls[p].dto).fromDate) /\ IsSome(Val(calls[p].dto).toDate)
          => LET filter == Val(calls[p].dto)
                 ret == Val(calls'[p].ret)
             IN  /\ \A i \in 1..Len(ret.transactions) :
                       /\ Val(filter.fromDate) <= ret.transactions[i].date
                       /\ ret.transactions[i].date <= Val(filter.toDate)
                 /\ ret.pagination.total =
                       Cardinality({o \in DOMAIN orders :
                          /\ orders[o].farmerId = filter.farmerId
                          /\ orders[o].deletedAt = None
                          /\ orders[o].trackingStatus \in TransactionStatusFilter(filter.status)
                          /\ Val(filter.fromDate) <= orders[o].createdAt
                          /\ orders[o].createdAt <= Val(filter.toDate)})]_vars

\* C32: default 90-day window.  In the step in which getTransactions hands its
\* filter to the repository: if the caller gave neither fromDate nor toDate,
\* the filter handed over has fromDate 90 days before the clock and no toDate,
\* and is the caller's in every other field; if the caller gave either date,
\* the filter handed over is the caller's.
C32_DefaultWindow ==
    [][\A p \in Procs :
          calls[p].pc # "gt_query" /\ calls'[p].pc = "gt_query" =>
             LET given == Val(calls'[p].dto)
                 passed == Val(calls'[p].upd)
             IN  IF given.fromDate = None /\ given.toDate = None
                    THEN /\ passed.fromDate = Some(now - DefaultRangeDays * TicksPerDay)
                         /\ passed.toDate = None
                         /\ \A f \in DOMAIN given \ {"fromDate"} : passed[f] = given[f]
                    ELSE passed = given]_vars

\* a call without dates, not the first call made, is in flight with the
\* default start in the filter handed to the repository
C32_Witness ==
    \E p \in Procs :
       /\ calls[p].pc = "gt_query"
       /\ ncalls > 1
       /\ Val(calls[p].dto).fromDate = None /\ Val(calls[p].dto).toDate = None
       /\ Val(calls[p].upd).fromDate = Some(now - DefaultRangeDays * TicksPerDay)

\* helper: the order exists, is not soft-deleted, belongs to the farmer and is
\* PAID or DELIVERED
VisibleTransaction(orderId, farmerId) ==
    /\ orderId \in DOMAIN orders
    /\ orders[orderId].deletedAt = None
    /\ orders[orderId].farmerId = farmerId
    /\ orders[orderId].trackingStatus \in {"PAID", "DELIVERED"}

\* C33 as stated: a finished getTransactionDetails call has returned the
\* details of its order if the order exists, is not soft-deleted, belongs to
\* the farmer and is PAID or DELIVERED, and has failed with
\* TRANSACTION_NOT_FOUND in every other case.
C33_TransactionVisibility ==
    \A p \in Procs :
       IsQuery(p, "getTransactionDetails") =>
          IF VisibleTransaction(calls[p].id, calls[p].farmerId)
             THEN calls[p].result = OK /\ Val(calls[p].ret).id = calls[p].id
             ELSE calls[p].result = TRANSACTION_NOT_FOUND /\ calls[p].ret = None

\* C33 amended: the same for a call with a positive farmer id; a call with a
\* zero or negative farmer id has failed with INVALID_FARMER_ID; no call has
\* failed with UNAUTHORIZED.
C33_TransactionVisibilityValidFarmer ==
    \A p \in Procs :
       IsQuery(p, "getTransactionDetails") =>
          /\ calls[p].result # UNAUTHORIZED
          /\ IF calls[p].farmerId <= 0
                THEN calls[p].result = INVALID_FARMER_ID /\ calls[p].ret = None
             ELSE IF VisibleTransaction(calls[p].id, calls[p].farmerId)
                THEN calls[p].result = OK /\ Val(calls[p].ret).id = calls[p].id
             ELSE calls[p].result = TRANSACTION_NOT_FOUND /\ calls[p].ret = None

\* a farmer asked for the details of a PAID, live order of another farmer and
\* was told it does not exist
C33_Witness ==
    \E p \in Procs :
       /\ IsQuery(p, "getTransactionDetails")
       /\ calls[p].farmerId > 0
       /\ calls[p].id \in DOMAIN orders
       /\ orders[calls[p].id].farmerId # calls[p].farmerId
       /\ orders[calls[p].id].trackingStatus = "PAID"
       /\ orders[calls[p].id].deletedAt = None
       /\ calls[p].result = TRANSACTION_NOT_FOUND

\* helper: the flag a finished getTransactionDetails or canDownloadReceipt call returned
ReceiptFlag(p) ==
    IF calls[p].op = "canDownloadReceipt" THEN Val(calls[p].ret)
    ELSE Val(calls[p].ret).canDownloadReceipt

\* helper: the instant the receipt window of an order is counted from
PaidDate(o) == IF orders[o].paidAt # None THEN Val(orders[o].paidAt) ELSE orders[o].updatedAt

\* C34: receipt eligibility boundary.  The flag a successful canDownloadReceipt
\* or getTransactionDetails call returns is true exactly if fewer than 91
\* whole days lie between paidAt (updatedAt when there is no paidAt) and the
\* clock the call read: true at exactly 90 days, false at exactly 91.
C34_ReceiptBoundary ==
    \A p \in Procs :
       /\ Done(p) /\ calls[p].op \in {"canDownloadReceipt", "getTransactionDetails"}
       /\ calls[p].result = OK
       => LET elapsed == calls[p].t - PaidDate(calls[p].id)
          IN  /\ ReceiptFlag(p) <=> elapsed < (ReceiptDays + 1) * TicksPerDay
              /\ elapsed = ReceiptDays * TicksPerDay => ReceiptFlag(p)
              /\ elapsed = (ReceiptDays + 1) * TicksPerDay => ~ReceiptFlag(p)

\* canDownloadReceipt was asked of an order without paidAt whose last update
\* is exactly 91 days back, and answered false
C34_Witness ==
    \E p \in Procs :
       /\ Done(p) /\ calls[p].op = "canDownloadReceipt" /\ calls[p].result = OK
       /\ orders[calls[p].id].paidAt = None
       /\ calls[p].t - orders[calls[p].id].updatedAt = (ReceiptDays + 1) * TicksPerDay
       /\ Val(calls[p].ret) = FALSE

\* the codes the facade answers a failure with
FacadeCodes == {NOT_FOUND, INVALID_ARGUMENT, FAILED_PRECONDITION, PERMISSION_DENIED, INTERNAL}
HandlerOps == OrderHandlerOps \cup MatchHandlerOps \cup TransactionHandlerOps

\* C35 (facade outcome): every handler call that has ended is answered with a
\* success payload or with an error whose code is one of NOT_FOUND,
\* INVALID_ARGUMENT, FAILED_PRECONDITION, PERMISSION_DENIED, INTERNAL; no
\* failure is handed to the callback without one of these codes.
C35_FacadeOutcome ==
    \A p \in Procs :
       (Done(p) /\ calls[p].op \in HandlerOps) =>
          LET answer == Callback(calls[p])
          IN  answer.ok \/ (answer.code # None /\ Val(answer.code) \in FacadeCodes)

\* C36 (acceptance agrees with the pending list): an acceptMatch call succeeds
\* only if, at the clock it compared the deadline with, the match satisfied the
\* pending-list predicate: status PENDING_ACCEPTANCE and expiresAt > now.  At
\* now = expiresAt acceptMatch does not succeed.
C36_AcceptAgreesWithPending ==
    [][ \A p \in Procs :
          ( /\ Returns(p) /\ InFlight(p) /\ calls[p].op = "accept"
            /\ calls'[p].result = OK )
          => /\ calls[p].st0 = PENDING_ACCEPTANCE
             /\ matches[calls[p].id].expiresAt > calls[p].t ]_vars

\* C37 (match timestamps agree with status): in every reachable state, under
\* any interleaving of acceptMatch, rejectMatch and expireMatches, a match has
\* acceptedAt set only if its status is ACCEPTED, rejectedAt set only if its
\* status is REJECTED, and never both set.
C37_TimestampsAgreeWithStatus ==
    \A m \in DOMAIN matches :
       /\ matches[m].acceptedAt # None => matches[m].status = ACCEPTED
       /\ matches[m].rejectedAt # None => matches[m].status = REJECTED
       /\ ~(matches[m].acceptedAt # None /\ matches[m].rejectedAt # None)

\* C38 (earnings snapshot consistency): a getEarnings call that ran beside an
\* updateStatus moving an order of the farmer from DELIVERED to PAID returns
\* the summary of one store state: every delivered-or-paid order of the farmer
\* is counted in exactly one of total and pending, and orderCount.total is the
\* number of the orders summed into total; the orders that were PAID all
\* along (all but o1, the one order updated) are among those in total.
C38_EarningsSnapshot ==
    \A p \in Procs :
       IsQuery(p, "getEarnings") /\ calls[p].result = OK =>
          LET f == calls[p].farmerId
              ret == Val(calls[p].ret)
              all == LiveOrders(f, "PAID") \cup LiveOrders(f, "DELIVERED")
          IN  \E paid \in SUBSET all :
                 /\ LiveOrders(f, "PAID") \ {"o1"} \subseteq paid
                 /\ ret.total = AmountOf(paid)
                 /\ ret.pending = AmountOf(all \ paid)
                 /\ ret.orderCount.total = Cardinality(paid)

\* C39 (timeline agrees with status): after every successful updateStatus,
\* also when calls interleave, the last entry of the order's statusHistory has
\* the order's trackingStatus as its status and the order's currentStep (the
\* step number of trackingStatus) as its step.
C39_TimelineAgreesWithStatus ==
    \A o \in OrderIds :
       LET h == orders[o].statusHistory
       IN  /\ Len(h) >= 1
           /\ h[Len(h)].status = orders[o].trackingStatus
           /\ h[Len(h)].step = OrderListItem(o).currentStep

\* two updateStatus calls wrote the same order, the second on a row it had
\* read before the first wrote, and the second has returned
C39_Witness ==
    \E p, q \in Procs :
       /\ p # q
       /\ IsUpdateStatus(p) /\ Succeeded(p) /\ calls[p].wrote = 1
       /\ IsUpdateStatus(q) /\ Succeeded(q) /\ calls[q].wrote = 1
       /\ calls[p].id = calls[q].id /\ calls[p].st0 = calls[q].st0
       /\ LET h == orders[calls[p].id].statusHistory
          IN  /\ h[Len(h)].status = orders[calls[p].id].trackingStatus
              /\ h[Len(h)].step = getStepNumber(calls[p].newStatus)

\* the match is PENDING_ACCEPTANCE with its deadline at or before the clock
Overdue(m) == matches[m].status = PENDING_ACCEPTANCE /\ matches[m].expiresAt <= now

\* C40 (sweep progress): with expireMatches invoked again and again and no
\* match created, every match that is PENDING_ACCEPTANCE with expiresAt <= now
\* eventually leaves PENDING_ACCEPTANCE, also when more matches are overdue
\* than the ceiling of 100 per invocation; every invocation ends, and it ends
\* after at most 100 status writes.  A match that is overdue stays overdue for
\* as long as it is pending (the clock does not go back and no call moves a
\* deadline), so every overdue match leaves PENDING_ACCEPTANCE exactly if from
\* every state with an overdue match a state without any is reached.
C40_SweepProgress ==
    /\ (\E m \in DOMAIN matches : Overdue(m)) ~> (\A m \in DOMAIN matches : ~Overdue(m))
    /\ \A p \in Procs : (IsSweep(p) /\ InFlight(p)) ~> Done(p)
    /\ [](\A p \in Procs : IsSweep(p) => calls[p].wrote <= BatchLimit)

\* BatchLimit + 1 matches were overdue at once: a sweep took the match due
\* last together with all but one of those due first, and a later sweep has
\* expired the one left over
C40_Witness ==
    \E p \in Procs :
       /\ IsSweep(p) /\ Done(p) /\ calls[p].result = OK /\ calls[p].ret = Some(1)
       /\ calls[p].batch \subseteq BatchMatchIds
       /\ Cardinality({m \in DOMAIN matches : matches[m].status = EXPIRED}) = BatchLimit + 1
       /\ \A m \in DOMAIN matches : ~Overdue(m)

====
